---- MODULE Spec2Model ----
(***************************************************************************)
(* Model of the MCP SSH stack of mcp/go_jsonrpc (and the go-sdk server):   *)
(*   - the request correlator of the stdio client and of the SSE client,   *)
(*   - the stdio server's dispatcher and initialization gate,              *)
(*   - the HTTP/SSE server's sessions, POST handler and stream writer,     *)
(*   - the SSH connection pool and the command executor.                   *)
(* Each subsystem has its own specification (SpecClient, SpecStdio,        *)
(* SpecSSE, SpecPool, SpecCall) over its own variables; the variables of   *)
(* the other subsystems stay at their initial values.                      *)
(***************************************************************************)
EXTENDS Integers, Sequences, FiniteSets, TLC

VARIABLES
    \* ---- client correlator (pkg/client/client.go, pkg/client/sse_client.go)
    cTransport,   \* "stdio" | "sse": which client this run is about
    cNow,         \* time.Now().UnixNano(), the source of request ids
    cResponses,   \* c.responses: id -> channel (0: no entry); a channel is named by the call that made it
    cChanBuf,     \* the buffer (capacity 1) of each call's respChan
    cChanClosed,  \* whether Close has closed that channel
    cPc,          \* where each sendRequest call is
    cReqId,       \* the id each call generated
    cAccepted,    \* the call's request was written to the transport (stdin write ok / HTTP 200)
    cOutcome,     \* what sendRequest returned to its caller
    cCancelled,   \* c.ctx is cancelled
    cClosePc,     \* where Close is: "open", "cancelled", "cleaned"
    cConnected,   \* SSEClient.connected
    cReaderAlive, \* readMessages / readSSEMessages is still scanning
    cDelivered,   \* responses the reader has routed so far
    cInit,        \* Initialize, whose sendRequest is call 1: "pending", "notified"
                  \* (notifications/initialized written), "failed" (error returned), "panicked"
    cInitResp     \* what Initialize found in the response: "none", "result", "error"

cvars == <<cTransport, cNow, cResponses, cChanBuf, cChanClosed, cPc, cReqId,
           cAccepted, cOutcome, cCancelled, cClosePc, cConnected, cReaderAlive,
           cDelivered, cInit, cInitResp>>

VARIABLES
    \* ---- stdio server (pkg/server: MCPServer)
    sInitialized, \* s.initialized
    sInitOk,      \* history: an initialize request has been answered with a result
    sLines,       \* input lines handled so far
    sLastMsg,     \* the line handled last
    sLastWasInit, \* s.initialized when that line arrived
    sLastFrames,  \* the frames written to stdout for it
    sLastRan      \* the tool handler that ran for it ("none" if none)

svars == <<sInitialized, sInitOk, sLines, sLastMsg, sLastWasInit, sLastFrames,
           sLastRan>>

VARIABLES
    \* ---- one tools/call of ssh_execute, on each of the three servers
    kServer,      \* "stdio" | "sse" | "sdk"
    kMsg,         \* the tools/call message
    kAnswer       \* what the server answered

kvars == <<kServer, kMsg, kAnswer>>

VARIABLES
    \* ---- HTTP/SSE server (pkg/server/sse_server.go)
    eNow,         \* the last reading of time.Now().UnixNano() by generateSessionID
    eSessions,    \* s.sessions: session id -> session (0: no entry); a session is named by its connection
    ePc,          \* where each connection's handleSSE is
    eSid,         \* the session id generated for the connection
    eDone,        \* session.Done is closed
    eMsgClosed,   \* session.Messages is closed
    eQueue,       \* the buffer of session.Messages: the POSTs whose responses wait
    eStream,      \* the events written to the connection's stream (0: endpoint, p: the response of POST p)
    eWriterPc,    \* where handleSessionMessages is
    eSawInit,     \* history: a notifications/initialized has been POSTed to the session
    eShutdown,    \* s.ctx is cancelled and Run has closed the sessions' Done channels
    pPc,          \* where each POST's handleMessage is
    pConn,        \* the session the POST's lookup found
    pMsg,         \* the POST's body
    pPreInit,     \* history: the session had seen no notifications/initialized when the POST was handled
    pStatus,      \* the HTTP status answered (0: none yet, -1: the handler panicked)
    pBody,        \* the HTTP body answered: "none", "empty" or "text" (http.Error)
    pSession,     \* the POST's sessionId parameter: "absent", "unknown" or "registered"
    eMethod,      \* the HTTP method of each request to /mcp/sse ("none": not made yet)
    eStatus       \* the HTTP status answered to it (0: no header written yet)

evars == <<eNow, eSessions, ePc, eSid, eDone, eMsgClosed, eQueue,
           eStream, eWriterPc, eSawInit, eShutdown, pPc, pConn, pMsg, pPreInit,
           pStatus, pBody, pSession, eMethod, eStatus>>

VARIABLES
    \* ---- SSH client manager (pkg/ssh: Client)
    connections,  \* c.connections: key -> pooled client (0: no entry)
    cancelled,    \* c.cancel() has run: Close was called
    crashed,      \* the runtime has stopped the process (fatal error: concurrent map access)
    sshState,     \* each ssh.Client made so far: "unused", "open", "dead" or "closed"
    sshKey,       \* the key each ssh.Client was made for
    sshReturned,  \* history: the ssh.Client was returned by a Connect call
    nextSsh,      \* the next ssh.Client to be made
    gPc,          \* where each caller's Connect is
    gKey,         \* the call's connKey
    gClient,      \* the client the call found in the pool, or made
    gEvicted,     \* history: len(c.connections) when the call deleted a dead entry (0: it has not)
    gLate         \* history: the call began after Close

pvars == <<connections, cancelled, crashed, sshState, sshKey, sshReturned,
           nextSsh, gPc, gKey, gClient, gEvicted, gLate>>

VARIABLES
    \* ---- the deadline of one ssh_execute (server handler and Client.Execute)
    tServer,      \* the server that took the call ("none": no call yet)
    tArg,         \* the call's timeout argument in seconds (0: absent)
    tConfig,      \* config.SSH.Timeout in seconds
    tParam,       \* params.Timeout after the handler's defaults
    tDeadline,    \* the deadline of the context Execute waits on, in seconds
    tDuration,    \* how long the remote command runs, in seconds
    tOutcome      \* how Execute's select ended: "completed" or "timeout"

tvars == <<tServer, tArg, tConfig, tParam, tDeadline, tDuration, tOutcome>>

VARIABLES
    \* ---- one call of Client.getAuthMethods
    aInfo,        \* what the call was given and found (password, key files, home, agent)
    aResult       \* what it returned: the methods, or an error

avars == <<aInfo, aResult>>

VARIABLES
    \* ---- chat orchestrator (chat/pkg/mcp: MCPClient)
    oPc,          \* where the orchestrator is: "new", "idle", "connecting", "returned"
    oConfig,      \* config.MCP.Servers: for each server its name and whether it is enabled
    oGo,          \* where each server's connectServer goroutine is
    oErrors,      \* the errors sent on Start's errors channel
    oServers,     \* c.servers: server name -> connection (0: no entry)
    oTools,       \* c.tools: qualified name -> ToolInfo
    oResult,      \* what Start returned: "none", "ok", "error"
    oCall         \* the last CallTool: its name, what it sent, what it returned

ovars == <<oPc, oConfig, oGo, oErrors, oServers, oTools, oResult, oCall>>

VARIABLES
    \* ---- one message through encoding/json (pkg/types: MCPRequest, MCPResponse)
    jPc,          \* "idle", "read" (the text is at hand), "decoded", "encoded"
    jIn,          \* the JSON value that was read
    jRequest,     \* the MCPRequest json.Unmarshal filled
    jResponse,    \* the MCPResponse json.Unmarshal filled
    jOut          \* the JSON value json.Marshal wrote

jvars == <<jPc, jIn, jRequest, jResponse, jOut>>

VARIABLES
    \* ---- SSEClient.Connect and its stream reader (pkg/client/sse_client.go)
    nPc,          \* where Connect is: "new", "started", "waiting", "woken", "returned"
    nStream,      \* the events the reader has still to read from the response body
    nReading,     \* the reader goroutine runs (the body is open)
    nEndpoint,    \* c.endpoint
    nConnected,   \* c.connected
    nCancelled,   \* c.ctx is cancelled
    nSeen,        \* history: the reader has handled an endpoint event that names an endpoint
    nResult       \* what Connect returned: "none", "ok", or the error

nvars == <<nPc, nStream, nReading, nEndpoint, nConnected, nCancelled, nSeen, nResult>>

VARIABLES
    \* ---- one Client.Execute and the goroutine that drains its session (pkg/ssh)
    xPc,          \* where Execute is: "idle", "selecting", "returned"
    xGo,          \* the goroutine: "none", "draining", "waiting", "sending", "exited"
    xOutLeft,     \* output of the command not read from the stdout pipe yet
    xErrLeft,     \* the same for stderr
    xOutDone,     \* io.ReadAll(stdout) has returned
    xErrDone,     \* io.ReadAll(stderr) has returned
    xRemote,      \* the session: "none", "running", "exited" (by itself) or "closed" (session.Close)
    xDone,        \* the buffer of the done channel
    xOutcome      \* how Execute returned: "none", "failed", "completed", "waitfailed", "timeout"

xvars == <<xPc, xGo, xOutLeft, xErrLeft, xOutDone, xErrDone, xRemote, xDone, xOutcome>>

VARIABLES
    \* ---- chat engine (ChatEngine: the message history)
    hMax,         \* config.Chat.MaxHistory (0: no engine made yet)
    hMessages,    \* e.messages
    hUntrimmed,   \* history: e.messages of the last Chat before trimHistory
    hSent,        \* history: request.Messages of the last Chat's first completion request
    hNext         \* the number of the next message

hvars == <<hMax, hMessages, hUntrimmed, hSent, hNext>>

vars == <<cvars, svars, evars, pvars, kvars, tvars, avars, ovars, jvars, nvars, xvars, hvars>>

\* Each subsystem's actions leave the other subsystems alone.
ClientOnly == UNCHANGED <<svars, evars, pvars, kvars, tvars, avars, ovars, jvars, nvars, xvars, hvars>>
StdioOnly == UNCHANGED <<cvars, evars, pvars, kvars, tvars, avars, ovars, jvars, nvars, xvars, hvars>>
SSEOnly == UNCHANGED <<cvars, svars, pvars, kvars, tvars, avars, ovars, jvars, nvars, xvars, hvars>>
PoolOnly == UNCHANGED <<cvars, svars, evars, kvars, tvars, avars, ovars, jvars, nvars, xvars, hvars>>
CallOnly == UNCHANGED <<cvars, svars, evars, pvars, tvars, avars, ovars, jvars, nvars, xvars, hvars>>
AuthOnly == UNCHANGED <<cvars, svars, evars, pvars, kvars, tvars, ovars, jvars, nvars, xvars, hvars>>
OrchOnly == UNCHANGED <<cvars, svars, evars, pvars, kvars, tvars, avars, jvars, nvars, xvars, hvars>>
DeadlineOnly == UNCHANGED <<cvars, svars, evars, pvars, kvars, avars, ovars, jvars, nvars, xvars, hvars>>
CodecOnly == UNCHANGED <<cvars, svars, evars, pvars, kvars, tvars, avars, ovars, nvars, xvars, hvars>>
ConnectOnly == UNCHANGED <<cvars, svars, evars, pvars, kvars, tvars, avars, ovars, jvars, xvars, hvars>>
ExecuteOnly == UNCHANGED <<cvars, svars, evars, pvars, kvars, tvars, avars, ovars, jvars, nvars, hvars>>
ChatOnly == UNCHANGED <<cvars, svars, evars, pvars, kvars, tvars, avars, ovars, jvars, nvars, xvars>>

----------------------------------------------------------------------------
(* Bounds *)
NCalls == 2        \* concurrent sendRequest calls
MaxClock == 2      \* distinct clock readings; ids are 0 .. MaxClock-1
MaxResp == 3       \* response lines the server side emits

Calls == 1 .. NCalls
Ids == 0 .. (MaxClock - 1)
NoId == -1         \* a nil interface{} id

Max(a, b) == IF a >= b THEN a ELSE b

----------------------------------------------------------------------------
(* Client correlator *)

NoOutcome == [kind |-> "none", id |-> NoId]
Outcome(k, i) == [kind |-> k, id |-> i]

InitClientOf(transports) ==
    /\ cTransport \in transports
    /\ cNow = 0
    /\ cResponses = [i \in Ids |-> 0]
    /\ cChanBuf = [k \in Calls |-> <<>>]
    /\ cChanClosed = [k \in Calls |-> FALSE]
    /\ cPc = [k \in Calls |-> "idle"]
    /\ cReqId = [k \in Calls |-> NoId]
    /\ cAccepted = [k \in Calls |-> FALSE]
    /\ cOutcome = [k \in Calls |-> NoOutcome]
    /\ cCancelled = FALSE
    /\ cClosePc = "open"
    /\ cConnected = TRUE
    /\ cReaderAlive = TRUE
    /\ cDelivered = 0
    /\ cInit = "pending"
    /\ cInitResp = "none"

InitClient == InitClientOf({"stdio", "sse"})
ClientIdle == InitClientOf({"stdio"})

\* A table that keeps the entry (no delete)
KeepSlot(resp, i) == resp

\* delete(c.responses, id)
DeleteSlot(resp, i) == [resp EXCEPT ![i] = 0]

\* The clock advances between two readings.
Tick ==
    /\ ClientOnly
    /\ cNow < MaxClock - 1
    /\ cNow' = cNow + 1
    /\ UNCHANGED <<cInit, cInitResp, cTransport, cResponses, cChanBuf, cChanClosed, cPc, cReqId,
                   cAccepted, cOutcome, cCancelled, cClosePc, cConnected,
                   cReaderAlive, cDelivered>>

\* sendRequest, up to the id: the connected check (SSE only) and
\* id := fmt.Sprintf("req-%d", time.Now().UnixNano()).
GenId(k) ==
    /\ ClientOnly
    /\ cPc[k] = "idle"
    /\ (IF k = 1 THEN TRUE ELSE cPc[k - 1] # "idle")   \* calls are numbered in the order they start
    /\ cNow \in Ids                                      \* the clock is bounded
    /\ IF cTransport = "sse" /\ ~cConnected
         THEN /\ cPc' = [cPc EXCEPT ![k] = "done"]
              /\ cOutcome' = [cOutcome EXCEPT ![k] = Outcome("notconnected", NoId)]
              /\ UNCHANGED cReqId
         ELSE /\ cPc' = [cPc EXCEPT ![k] = "gotid"]
              /\ cReqId' = [cReqId EXCEPT ![k] = cNow]
              /\ UNCHANGED cOutcome
    /\ UNCHANGED <<cInit, cInitResp, cTransport, cNow, cResponses, cChanBuf, cChanClosed,
                   cAccepted, cCancelled, cClosePc, cConnected, cReaderAlive,
                   cDelivered>>

\* respChan := make(chan, 1); c.responses[id] = respChan   (under c.mutex.Lock)
Park(k) ==
    /\ ClientOnly
    /\ cPc[k] = "gotid"
    /\ cResponses' = [cResponses EXCEPT ![cReqId[k]] = k]
    /\ cPc' = [cPc EXCEPT ![k] = "parked"]
    /\ UNCHANGED <<cInit, cInitResp, cTransport, cNow, cChanBuf, cChanClosed, cReqId, cAccepted,
                   cOutcome, cCancelled, cClosePc, cConnected, cReaderAlive,
                   cDelivered>>

\* The write to the transport: Fprintf on stdin, or the HTTP POST. It fails when
\* the stream is closed / the context is cancelled, and the POST may be answered
\* with a status other than 200; every failure deletes the slot by id.
Write(k) ==
    /\ ClientOnly
    /\ cPc[k] = "parked"
    /\ \E ok \in BOOLEAN :
         /\ (cCancelled => ~ok)
         /\ (cTransport = "stdio" /\ ~cCancelled => ok)
         /\ IF ok
              THEN /\ cPc' = [cPc EXCEPT ![k] = "waiting"]
                   /\ cAccepted' = [cAccepted EXCEPT ![k] = TRUE]
                   /\ UNCHANGED <<cResponses, cOutcome>>
              ELSE /\ cPc' = [cPc EXCEPT ![k] = "done"]
                   /\ cResponses' = DeleteSlot(cResponses, cReqId[k])
                   /\ cOutcome' = [cOutcome EXCEPT ![k] = Outcome("sendfailed", NoId)]
                   /\ UNCHANGED cAccepted
    /\ UNCHANGED <<cInit, cInitResp, cTransport, cNow, cChanBuf, cChanClosed, cReqId, cCancelled,
                   cClosePc, cConnected, cReaderAlive, cDelivered>>

\* The channel a response with id i is routed to: c.responses[response.ID].
RouteAny(i) == IF \E j \in Ids : cResponses[j] # 0
                 THEN cResponses[CHOOSE j \in Ids : cResponses[j] # 0]
                 ELSE 0
RouteTarget(i) == cResponses[i]

\* readMessages / handleSSEEvent("message"): the reader scans one response line
\* carrying id i (the peer answers requests it has been sent; answering takes
\* time, so the clock has moved past the id) and routes it: a non-blocking send
\* on the slot's channel, dropped when the buffer is full or no slot is found.
Deliver(i) ==
    /\ ClientOnly
    /\ cReaderAlive
    /\ cDelivered < MaxResp
    /\ \E k \in Calls : cReqId[k] = i /\ cPc[k] \in {"parked", "waiting", "done"}
                        /\ (cPc[k] = "done" => cAccepted[k])
    /\ cDelivered' = cDelivered + 1
    /\ cNow' = Max(cNow, i + 1)
    /\ LET ch == RouteTarget(i) IN
         IF ch # 0 /\ cChanBuf[ch] = <<>>
           THEN cChanBuf' = [cChanBuf EXCEPT ![ch] = <<i>>]
           ELSE UNCHANGED cChanBuf
    /\ UNCHANGED <<cInit, cInitResp, cTransport, cResponses, cChanClosed, cPc, cReqId, cAccepted,
                   cOutcome, cCancelled, cClosePc, cConnected, cReaderAlive>>

\* The reader's loop ends: EOF or a read error on the server's stream.
ReaderEOF ==
    /\ ClientOnly
    /\ cReaderAlive
    /\ cReaderAlive' = FALSE
    /\ UNCHANGED <<cInit, cInitResp, cTransport, cNow, cResponses, cChanBuf, cChanClosed, cPc,
                   cReqId, cAccepted, cOutcome, cCancelled, cClosePc, cConnected,
                   cDelivered>>

\* select case response := <-respChan. A buffered value is received first; on a
\* closed, empty channel the receive yields the zero value (a nil pointer in the
\* stdio client, an empty MCPResponse in the SSE client) and sendRequest returns
\* it with a nil error. The SSE client deletes the slot, the stdio client not.
Receive(k) ==
    /\ ClientOnly
    /\ cPc[k] = "waiting"
    /\ cChanBuf[k] # <<>> \/ cChanClosed[k]
    /\ cPc' = [cPc EXCEPT ![k] = "done"]
    /\ IF cChanBuf[k] # <<>>
         THEN /\ cOutcome' = [cOutcome EXCEPT ![k] = Outcome("response", Head(cChanBuf[k]))]
              /\ cChanBuf' = [cChanBuf EXCEPT ![k] = <<>>]
         ELSE /\ cOutcome' = [cOutcome EXCEPT ![k] = Outcome("empty", NoId)]
              /\ UNCHANGED cChanBuf
    /\ cResponses' = IF cTransport = "sse" THEN DeleteSlot(cResponses, cReqId[k])
                                           ELSE cResponses
    /\ UNCHANGED <<cInit, cInitResp, cTransport, cNow, cChanClosed, cReqId, cAccepted, cCancelled,
                   cClosePc, cConnected, cReaderAlive, cDelivered>>

\* select case <-time.After(30 * time.Second)
Timeout(k) ==
    /\ ClientOnly
    /\ cPc[k] = "waiting"
    /\ cPc' = [cPc EXCEPT ![k] = "done"]
    /\ cResponses' = DeleteSlot(cResponses, cReqId[k])
    /\ cOutcome' = [cOutcome EXCEPT ![k] = Outcome("timeout", NoId)]
    /\ UNCHANGED <<cInit, cInitResp, cTransport, cNow, cChanBuf, cChanClosed, cReqId, cAccepted,
                   cCancelled, cClosePc, cConnected, cReaderAlive, cDelivered>>

\* select case <-c.ctx.Done()
CtxDone(k) ==
    /\ ClientOnly
    /\ cPc[k] = "waiting"
    /\ cCancelled
    /\ cPc' = [cPc EXCEPT ![k] = "done"]
    /\ cOutcome' = [cOutcome EXCEPT ![k] = Outcome("closed", NoId)]
    /\ UNCHANGED <<cInit, cInitResp, cTransport, cNow, cResponses, cChanBuf, cChanClosed, cReqId,
                   cAccepted, cCancelled, cClosePc, cConnected, cReaderAlive,
                   cDelivered>>

\* Close, first part: c.connected = false (SSE), c.cancel(), the streams closed.
CloseCancel ==
    /\ ClientOnly
    /\ cClosePc = "open"
    /\ cClosePc' = "cancelled"
    /\ cCancelled' = TRUE
    /\ cConnected' = FALSE
    /\ UNCHANGED <<cInit, cInitResp, cTransport, cNow, cResponses, cChanBuf, cChanClosed, cPc,
                   cReqId, cAccepted, cOutcome, cReaderAlive, cDelivered>>

\* Close, second part (under c.mutex.Lock): every channel in c.responses is
\* closed and its entry deleted.
CloseCleanup ==
    /\ ClientOnly
    /\ cClosePc = "cancelled"
    /\ cClosePc' = "cleaned"
    /\ cChanClosed' = [k \in Calls |->
                         cChanClosed[k] \/ (\E i \in Ids : cResponses[i] = k)]
    /\ cResponses' = [i \in Ids |-> 0]
    /\ UNCHANGED <<cInit, cInitResp, cTransport, cNow, cChanBuf, cPc, cReqId, cAccepted, cOutcome,
                   cCancelled, cConnected, cReaderAlive, cDelivered>>

\* sendRequest returned an error to its caller.
RequestFailed(o) == o.kind \in {"timeout", "closed", "sendfailed", "notconnected"}

\* No response is taken as an error response.
ServerRefusedNever(o, err) == FALSE

\* if response.Error != nil { return error }
ServerRefused(o, err) == o.kind = "response" /\ err

\* Initialize / initializeServer after its sendRequest("initialize") (call 1)
\* has returned: an error is returned for a failed request and for an error
\* response; a nil response (stdio client and orchestrator, after Close) is
\* dereferenced; otherwise sendNotification("notifications/initialized")
\* runs, which the SSE client refuses when it is not connected and which can
\* fail in the write.
InitializeContinue ==
    /\ ClientOnly
    /\ cInit = "pending"
    /\ cPc[1] = "done"
    /\ LET o == cOutcome[1] IN
       \E err, ok \in BOOLEAN :
         /\ (o.kind # "response" => ~err)
         /\ cInitResp' = IF o.kind # "response" THEN "none"
                          ELSE IF err THEN "error" ELSE "result"
         /\ cInit' = IF RequestFailed(o) THEN "failed"
                      ELSE IF o.kind = "empty" /\ cTransport = "stdio" THEN "panicked"
                      ELSE IF ServerRefused(o, err) THEN "failed"
                      ELSE IF cTransport = "sse" /\ ~cConnected THEN "failed"
                      ELSE IF ok THEN "notified" ELSE "failed"
    /\ UNCHANGED <<cTransport, cNow, cResponses, cChanBuf, cChanClosed, cPc,
                   cReqId, cAccepted, cOutcome, cCancelled, cClosePc, cConnected,
                   cReaderAlive, cDelivered>>

NextClient ==
    \/ Tick
    \/ \E k \in Calls : GenId(k)
    \/ \E k \in Calls : Park(k)
    \/ \E k \in Calls : Write(k)
    \/ \E i \in Ids : Deliver(i)
    \/ ReaderEOF
    \/ \E k \in Calls : Receive(k)
    \/ \E k \in Calls : Timeout(k)
    \/ \E k \in Calls : CtxDone(k)
    \/ CloseCancel
    \/ CloseCleanup
    \/ InitializeContinue

----------------------------------------------------------------------------
(* Messages, remote outcomes and frames shared by the servers *)

MaxExit == 3       \* remote exit statuses are 0 .. MaxExit
MaxLines == 3      \* input lines the stdio server handles

\* JSON-RPC error codes (pkg/types/mcp.go)
ParseError == -32700
InvalidRequest == -32600
MethodNotFound == -32601
InvalidParams == -32602
ServerError == -32000

Methods == {"initialize", "tools/list", "tools/call", "notifications/initialized",
            "notifications/cancelled", "resources/list"}
ToolNames == {"ssh_execute", "ssh_file_transfer", "other"}
ReqIds == {NoId, 7}
\* The arguments of a tools/call: complete and well typed, a required field
\* missing, a field of the wrong JSON type, or direction outside its enum.
ArgKinds == {"ok", "missing", "badtype", "badenum"}

\* What the remote side does with an Execute call: the command exits with a
\* status (0: session.Wait returns nil, else an *ssh.ExitError), or the
\* connection, the session or the wait fails, or the deadline passes first.
ExecOutcomes ==
    {[kind |-> "exit", code |-> c] : c \in 0 .. MaxExit}
      \cup {[kind |-> k, code |-> 0] :
               k \in {"connectfailed", "sessionfailed", "waitfailed", "timeout"}}

\* An incoming message: whether its text is JSON at all (syntax), whether
\* json.Unmarshal decodes it into an MCPRequest (json: it fails on text that is
\* not JSON, on a JSON value that is not an object, and on a field of the wrong
\* JSON type, such as "jsonrpc": 2), whether the decoded jsonrpc field is "2.0"
\* (v2), its id and method, whether params has the shape the method expects,
\* the tool named, its arguments, and what the remote side would do.
AllMessages ==
    [syntax : BOOLEAN, json : BOOLEAN, v2 : BOOLEAN, id : ReqIds, method : Methods,
     paramsOk : BOOLEAN, tool : ToolNames, args : ArgKinds, exec : ExecOutcomes]

DefaultExec == [kind |-> "exit", code |-> 0]

\* Fields that cannot matter are fixed, so that each message is listed once.
Messages ==
    {m \in AllMessages :
        /\ (m.json => m.syntax)
        /\ (~m.json => m.v2 /\ m.id = NoId /\ m.method = "initialize")
        /\ (~m.json \/ ~m.v2 \/ m.method \notin {"initialize", "tools/call"} => m.paramsOk)
        /\ (~m.json \/ ~m.v2 \/ m.method # "tools/call" \/ ~m.paramsOk
              => m.tool = "other" /\ m.args = "ok" /\ m.exec = DefaultExec)
        /\ (m.tool = "other" => m.args = "ok")
        /\ (m.tool = "ssh_execute" => m.args # "badenum")
        /\ (m.tool # "ssh_execute" \/ m.args = "badtype" => m.exec = DefaultExec)}

ErrorFrame(id, code) ==
    [id |-> id, kind |-> "error", code |-> code, of |-> "", isError |-> FALSE]
ResultFrame(id, of, isError) ==
    [id |-> id, kind |-> "result", code |-> 0, of |-> of, isError |-> isError]

\* Client.Execute, from the remote outcome on: the exit code of a completed
\* command, or an error.
Execute(o) ==
    IF o.kind = "exit"
      THEN [ok |-> TRUE, exitCode |-> o.code]
      ELSE [ok |-> FALSE, exitCode |-> 0]

\* IsError: result.ExitCode != 0
IsErrorFlagAlways(exitCode) == TRUE
IsErrorFlag(exitCode) == exitCode # 0

----------------------------------------------------------------------------
(* Stdio server *)

Handled(frames, init, ran, initOk) ==
    [frames |-> frames, initialized |-> init, ran |-> ran, initOk |-> initOk]

\* MCPServer.handleInitialize
StdioInitialize(m, init) ==
    IF ~m.paramsOk
      THEN Handled(<<ErrorFrame(m.id, InvalidParams)>>, init, "none", FALSE)
      ELSE Handled(<<ResultFrame(m.id, "initialize", FALSE)>>, init, "none", TRUE)

\* The initialization gate of handleToolsList and handleToolsCall:
\* if !s.initialized { sendError(ServerError) }
StdioGateOpen(init) == TRUE
StdioGate(init) == init

\* MCPServer.handleToolsList
StdioToolsList(m, init) ==
    IF ~StdioGate(init)
      THEN Handled(<<ErrorFrame(m.id, ServerError)>>, init, "none", FALSE)
      ELSE Handled(<<ResultFrame(m.id, "tools/list", FALSE)>>, init, "none", FALSE)

\* MCPServer.handleSSHExecute: json.Unmarshal into SSHExecuteParams fails on a
\* field of the wrong type only; a missing field is left at its zero value.
StdioSSHExecute(m, init) ==
    IF m.args = "badtype"
      THEN Handled(<<ErrorFrame(m.id, InvalidParams)>>, init, "ssh_execute", FALSE)
      ELSE LET r == Execute(m.exec) IN
           IF ~r.ok
             THEN Handled(<<ErrorFrame(m.id, ServerError)>>, init, "ssh_execute", FALSE)
             ELSE Handled(<<ResultFrame(m.id, "ssh_execute", IsErrorFlag(r.exitCode))>>,
                          init, "ssh_execute", FALSE)

\* MCPServer.handleSSHFileTransfer
StdioSSHFileTransfer(m, init) ==
    IF m.args = "badtype"
      THEN Handled(<<ErrorFrame(m.id, InvalidParams)>>, init, "ssh_file_transfer", FALSE)
      ELSE Handled(<<ResultFrame(m.id, "ssh_file_transfer", FALSE)>>,
                   init, "ssh_file_transfer", FALSE)

\* MCPServer.handleToolsCall
StdioToolsCall(m, init) ==
    IF ~StdioGate(init)
      THEN Handled(<<ErrorFrame(m.id, ServerError)>>, init, "none", FALSE)
    ELSE IF ~m.paramsOk
      THEN Handled(<<ErrorFrame(m.id, InvalidParams)>>, init, "none", FALSE)
    ELSE CASE m.tool = "ssh_execute" -> StdioSSHExecute(m, init)
           [] m.tool = "ssh_file_transfer" -> StdioSSHFileTransfer(m, init)
           [] OTHER -> Handled(<<ErrorFrame(m.id, MethodNotFound)>>, init, "none", FALSE)

\* MCPServer.handleInitializedNotification
StdioInitializedNotification(m, init) == Handled(<<>>, TRUE, "none", FALSE)

\* MCPServer.routeRequest
StdioRoute(m, init) ==
    CASE m.method = "initialize" -> StdioInitialize(m, init)
      [] m.method = "tools/list" -> StdioToolsList(m, init)
      [] m.method = "tools/call" -> StdioToolsCall(m, init)
      [] m.method = "notifications/initialized" -> StdioInitializedNotification(m, init)
      [] OTHER -> Handled(<<ErrorFrame(m.id, MethodNotFound)>>, init, "none", FALSE)

\* MCPServer.handleMessage
StdioHandle(m, init) ==
    IF ~m.json THEN Handled(<<ErrorFrame(NoId, ParseError)>>, init, "none", FALSE)
    ELSE IF ~m.v2 THEN Handled(<<ErrorFrame(m.id, InvalidRequest)>>, init, "none", FALSE)
    ELSE StdioRoute(m, init)

NoMessage ==
    [syntax |-> FALSE, json |-> FALSE, v2 |-> TRUE, id |-> NoId, method |-> "initialize",
     paramsOk |-> TRUE, tool |-> "other", args |-> "ok", exec |-> DefaultExec]

InitStdio ==
    /\ sInitialized = FALSE
    /\ sInitOk = FALSE
    /\ sLines = 0
    /\ sLastMsg = NoMessage
    /\ sLastWasInit = FALSE
    /\ sLastFrames = <<>>
    /\ sLastRan = "none"

\* One iteration of MCPServer.Run: a non-empty line is read and handled.
StdioLine(m) ==
    /\ StdioOnly
    /\ sLines < MaxLines
    /\ LET h == StdioHandle(m, sInitialized) IN
         /\ sInitialized' = h.initialized
         /\ sInitOk' = (sInitOk \/ h.initOk)
         /\ sLastFrames' = h.frames
         /\ sLastRan' = h.ran
    /\ sLines' = sLines + 1
    /\ sLastMsg' = m
    /\ sLastWasInit' = sInitialized

NextStdio == \E m \in Messages : StdioLine(m)

----------------------------------------------------------------------------
(* HTTP/SSE server *)

NConn == 2         \* GET /mcp/sse connections
NPost == 2         \* POST /mcp/message requests
MaxSid == 2        \* distinct clock readings; session ids are 0 .. MaxSid-1
MessagesCap == 1   \* capacity of session.Messages (100 in the code, scaled down)

Conns == 1 .. NConn
Posts == 1 .. NPost
Sids == 0 .. (MaxSid - 1)
NoSid == -1        \* an absent sessionId parameter
Endpoint == 0      \* the endpoint event in a stream

\* SSEServer.executeSSHCommand: a required field that is missing or not a string
\* is an error, like a failed Execute.
SSEExecuteSSHCommand(m) ==
    IF m.args \in {"missing", "badtype"}
      THEN [err |-> TRUE, isError |-> FALSE]
      ELSE LET r == Execute(m.exec) IN
           IF ~r.ok THEN [err |-> TRUE, isError |-> FALSE]
                    ELSE [err |-> FALSE, isError |-> IsErrorFlag(r.exitCode)]

\* SSEServer.executeSSHFileTransfer
SSEExecuteSSHFileTransfer(m) ==
    IF m.args \in {"missing", "badtype"}
      THEN [err |-> TRUE, isError |-> FALSE]
      ELSE [err |-> FALSE, isError |-> FALSE]

\* SSEServer.handleToolsCall
SSEToolsCall(m) ==
    IF ~m.paramsOk THEN [err |-> TRUE, isError |-> FALSE]
    ELSE CASE m.tool = "ssh_execute" -> SSEExecuteSSHCommand(m)
           [] m.tool = "ssh_file_transfer" -> SSEExecuteSSHFileTransfer(m)
           [] OTHER -> [err |-> TRUE, isError |-> FALSE]

\* SSEServer.handleRequest: the response object, or none (a nil pointer) for
\* notifications/initialized. No method consults any session state.
SSEHandleRequest(m) ==
    CASE m.method = "initialize" ->
           [none |-> FALSE, frame |-> ResultFrame(m.id, "initialize", FALSE)]
      [] m.method = "tools/list" ->
           [none |-> FALSE, frame |-> ResultFrame(m.id, "tools/list", FALSE)]
      [] m.method = "tools/call" ->
           LET r == SSEToolsCall(m) IN
           [none |-> FALSE,
            frame |-> IF r.err THEN ErrorFrame(m.id, ServerError)
                               ELSE ResultFrame(m.id, m.tool, r.isError)]
      [] m.method = "notifications/initialized" ->
           [none |-> TRUE, frame |-> ErrorFrame(NoId, 0)]
      [] OTHER ->
           [none |-> FALSE, frame |-> ErrorFrame(m.id, MethodNotFound)]

\* The bodies POSTed in the session model: one body that is not JSON, the
\* handshake's request and notification, and one request after the handshake,
\* each of the last two with and without an id.
SSEBodies ==
    {m \in Messages :
        /\ (m.json \/ ~m.syntax)
        /\ m.v2 /\ m.paramsOk
        /\ m.method \in {"initialize", "tools/list", "notifications/initialized"}
        /\ (m.json /\ m.method = "initialize" => m.id # NoId)}

InitSSE ==
    /\ eNow = 0
    /\ eSessions = [i \in Sids |-> 0]
    /\ ePc = [c \in Conns |-> "none"]
    /\ eSid = [c \in Conns |-> NoSid]
    /\ eDone = [c \in Conns |-> FALSE]
    /\ eMsgClosed = [c \in Conns |-> FALSE]
    /\ eQueue = [c \in Conns |-> <<>>]
    /\ eStream = [c \in Conns |-> <<>>]
    /\ eWriterPc = [c \in Conns |-> "none"]
    /\ eSawInit = [c \in Conns |-> FALSE]
    /\ eShutdown = FALSE
    /\ pPc = [p \in Posts |-> "idle"]
    /\ pConn = [p \in Posts |-> 0]
    /\ pMsg = [p \in Posts |-> NoMessage]
    /\ pPreInit = [p \in Posts |-> FALSE]
    /\ pStatus = [p \in Posts |-> 0]
    /\ pBody = [p \in Posts |-> "none"]
    /\ pSession = [p \in Posts |-> "none"]
    /\ eMethod = [c \in Conns |-> "none"]
    /\ eStatus = [c \in Conns |-> 0]

\* handleSSE has not returned (or panicked): what is written to the
\* connection's ResponseWriter goes to the stream.
HandlerRunning(c) == ePc[c] \in {"registered", "endpoint", "serving", "unregistered"}

\* An event written to every open stream.
SendSSEEventToAll(stream, c, ev) ==
    [d \in Conns |-> IF HandlerRunning(d) THEN Append(stream[d], ev) ELSE stream[d]]

\* sendSSEEvent: the event is written to the stream while the handler runs;
\* a write to the ResponseWriter of a handler that is over is lost (the
\* panic, if any, is recovered).
SendSSEEvent(stream, c, ev) ==
    IF HandlerRunning(c) THEN [stream EXCEPT ![c] = Append(@, ev)] ELSE stream

\* handleSSE for a GET: sessionID := generateSessionID(), a reading t of the
\* clock that is not before the last one; the session is made and registered,
\* s.sessions[sessionID] = session (under s.mutex.Lock).
Register(c) ==
    /\ SSEOnly
    /\ ePc[c] = "none"
    /\ (IF c = 1 THEN TRUE ELSE ePc[c - 1] # "none")   \* connections are numbered in the order they open
    /\ ~eShutdown
    /\ \E t \in Sids :
         /\ t >= eNow
         /\ eNow' = t
         /\ eSid' = [eSid EXCEPT ![c] = t]
         /\ eSessions' = [eSessions EXCEPT ![t] = c]
    /\ ePc' = [ePc EXCEPT ![c] = "registered"]
    /\ eMethod' = [eMethod EXCEPT ![c] = "GET"]
    /\ UNCHANGED <<eStatus, eDone, eMsgClosed, eQueue, eStream,
                   eWriterPc, eSawInit, eShutdown, pPc, pConn, pMsg, pPreInit,
                   pStatus, pBody,
                   pSession>>

\* Every request to /mcp/sse is answered 200.
MethodStatusOK(method) == 200

\* handleSSE's answer to a request that is not a GET: 200 for OPTIONS, else
\* http.Error(w, "Method not allowed", http.StatusMethodNotAllowed).
MethodStatus(method) == IF method = "OPTIONS" THEN 200 ELSE 405

\* handleSSE for a request that is not a GET: the status is answered and the
\* handler returns before anything of a session is made.
RefuseMethod(c, method) ==
    /\ SSEOnly
    /\ ePc[c] = "none"
    /\ (IF c = 1 THEN TRUE ELSE ePc[c - 1] # "none")
    /\ ~eShutdown
    /\ eMethod' = [eMethod EXCEPT ![c] = method]
    /\ eStatus' = [eStatus EXCEPT ![c] = MethodStatus(method)]
    /\ ePc' = [ePc EXCEPT ![c] = "refused"]
    /\ UNCHANGED <<eNow, eSessions, eSid, eDone, eMsgClosed, eQueue, eStream,
                   eWriterPc, eSawInit, eShutdown, pPc, pConn, pMsg, pPreInit,
                   pStatus, pBody, pSession>>

\* s.sendSSEEvent(w, flusher, "endpoint", endpoint); the first write sends the
\* header with status 200.
SendEndpoint(c) ==
    /\ SSEOnly
    /\ ePc[c] = "registered"
    /\ ePc' = [ePc EXCEPT ![c] = "endpoint"]
    /\ eStream' = SendSSEEvent(eStream, c, Endpoint)
    /\ eStatus' = [eStatus EXCEPT ![c] = 200]
    /\ UNCHANGED <<eMethod, eNow, eSessions, eSid, eDone, eMsgClosed, eQueue,
                   eWriterPc, eSawInit, eShutdown, pPc, pConn, pMsg, pPreInit,
                   pStatus, pBody,
                   pSession>>

\* The writer started as soon as the session is registered, before the
\* endpoint event is sent.
StartWriterFirst(c) ==
    /\ SSEOnly
    /\ ePc[c] \in {"registered", "endpoint"}
    /\ eWriterPc[c] = "none"
    /\ ePc' = [ePc EXCEPT ![c] = IF @ = "endpoint" THEN "serving" ELSE @]
    /\ eWriterPc' = [eWriterPc EXCEPT ![c] = "running"]
    /\ UNCHANGED <<eMethod, eStatus, eNow, eSessions, eSid, eDone, eMsgClosed, eQueue,
                   eStream, eSawInit, eShutdown, pPc, pConn, pMsg, pPreInit,
                   pStatus, pBody,
                   pSession>>

\* go s.handleSessionMessages(session); handleSSE then blocks in its select.
StartWriter(c) ==
    /\ SSEOnly
    /\ ePc[c] = "endpoint"
    /\ ePc' = [ePc EXCEPT ![c] = "serving"]
    /\ eWriterPc' = [eWriterPc EXCEPT ![c] = "running"]
    /\ UNCHANGED <<eMethod, eStatus, eNow, eSessions, eSid, eDone, eMsgClosed, eQueue,
                   eStream, eSawInit, eShutdown, pPc, pConn, pMsg, pPreInit,
                   pStatus, pBody,
                   pSession>>

\* handleSSE's select returns, because the client has dropped the connection
\* (r.Context() is done, which can happen at any time) or session.Done is
\* closed, and the session is removed: delete(s.sessions, sessionID), by id
\* (under s.mutex.Lock).
Unregister(c) ==
    /\ SSEOnly
    /\ ePc[c] = "serving"
    /\ ePc' = [ePc EXCEPT ![c] = "unregistered"]
    /\ eSessions' = [eSessions EXCEPT ![eSid[c]] = 0]
    /\ UNCHANGED <<eMethod, eStatus, eNow, eSid, eDone, eMsgClosed, eQueue, eStream,
                   eWriterPc, eSawInit, eShutdown, pPc, pConn, pMsg, pPreInit,
                   pStatus, pBody,
                   pSession>>

\* close(session.Done); close(session.Messages); handleSSE returns. Closing a
\* Done that Run has closed already panics, and the handler ends with
\* session.Messages left open.
CloseChannels(c) ==
    /\ SSEOnly
    /\ ePc[c] = "unregistered"
    /\ IF eDone[c]
         THEN /\ ePc' = [ePc EXCEPT ![c] = "panicked"]
              /\ UNCHANGED <<eDone, eMsgClosed>>
         ELSE /\ ePc' = [ePc EXCEPT ![c] = "returned"]
              /\ eDone' = [eDone EXCEPT ![c] = TRUE]
              /\ eMsgClosed' = [eMsgClosed EXCEPT ![c] = TRUE]
    /\ UNCHANGED <<eMethod, eStatus, eNow, eSessions, eSid, eQueue, eStream,
                   eWriterPc, eSawInit, eShutdown, pPc, pConn, pMsg, pPreInit,
                   pStatus, pBody,
                   pSession>>

\* Close cancels s.ctx and Run closes session.Done of every registered session
\* (under s.mutex.Lock); the HTTP server then takes no new request.
Shutdown ==
    /\ SSEOnly
    /\ ~eShutdown
    /\ eShutdown' = TRUE
    /\ eDone' = [c \in Conns |-> eDone[c] \/ (\E i \in Sids : eSessions[i] = c)]
    /\ UNCHANGED <<eMethod, eStatus, eNow, eSessions, ePc, eSid, eMsgClosed, eQueue,
                   eStream, eWriterPc, eSawInit, pPc, pConn, pMsg, pPreInit,
                   pStatus, pBody,
                   pSession>>

\* handleSessionMessages, select case message, ok := <-session.Messages with a
\* value buffered: the response is written as a message event.
WriterRecv(c) ==
    /\ SSEOnly
    /\ eWriterPc[c] = "running"
    /\ eQueue[c] # <<>>
    /\ eQueue' = [eQueue EXCEPT ![c] = Tail(@)]
    /\ eStream' = SendSSEEvent(eStream, c, Head(eQueue[c]))
    /\ UNCHANGED <<eMethod, eStatus, eNow, eSessions, ePc, eSid, eDone, eMsgClosed,
                   eWriterPc, eSawInit, eShutdown, pPc, pConn, pMsg, pPreInit,
                   pStatus, pBody,
                   pSession>>

\* handleSessionMessages returns: session.Done is closed (whatever is still
\* buffered), or session.Messages is closed and empty.
WriterExit(c) ==
    /\ SSEOnly
    /\ eWriterPc[c] = "running"
    /\ eDone[c] \/ (eMsgClosed[c] /\ eQueue[c] = <<>>)
    /\ eWriterPc' = [eWriterPc EXCEPT ![c] = "exited"]
    /\ UNCHANGED <<eMethod, eStatus, eNow, eSessions, ePc, eSid, eDone, eMsgClosed,
                   eQueue, eStream, eSawInit, eShutdown, pPc, pConn, pMsg,
                   pPreInit, pStatus, pBody,
                   pSession>>

\* What the POST's sessionId parameter names when the request arrives
SessionParam(sid) ==
    IF sid = NoSid THEN "absent"
    ELSE IF eSessions[sid] = 0 THEN "unknown" ELSE "registered"

\* A lookup that finds a session under every id
LookupAny(sid) == 1

\* session, exists := s.sessions[sessionID]   (under s.mutex.RLock)
Lookup(sid) == IF sid = NoSid THEN 0 ELSE eSessions[sid]

\* handleMessage for a POST, up to the response: the sessionId parameter (400
\* when absent), the lookup (404 when not found), the body (400 when it is not
\* JSON), and handleRequest.
PostHandle(p, sid, m) ==
    /\ SSEOnly
    /\ pPc[p] = "idle"
    /\ (IF p = 1 THEN TRUE ELSE pPc[p - 1] # "idle")   \* POSTs are numbered in the order they arrive
    /\ ~eShutdown
    /\ pSession' = [pSession EXCEPT ![p] = SessionParam(sid)]
    /\ LET c == Lookup(sid) IN
         IF sid = NoSid \/ c = 0 \/ ~m.json
           THEN /\ pStatus' = [pStatus EXCEPT ![p] = IF sid # NoSid /\ c = 0 THEN 404 ELSE 400]
                /\ pBody' = [pBody EXCEPT ![p] = "text"]
                /\ pPc' = [pPc EXCEPT ![p] = "done"]
                /\ UNCHANGED <<pConn, pMsg, pPreInit, eSawInit>>
           ELSE /\ pMsg' = [pMsg EXCEPT ![p] = m]
                /\ pConn' = [pConn EXCEPT ![p] = c]
                /\ pPreInit' = [pPreInit EXCEPT ![p] = ~eSawInit[c]]
                /\ eSawInit' = [eSawInit EXCEPT ![c] =
                                   @ \/ m.method = "notifications/initialized"]
                /\ pPc' = [pPc EXCEPT ![p] = "handled"]
                /\ UNCHANGED <<pStatus, pBody>>
    /\ UNCHANGED <<eMethod, eStatus, eNow, eSessions, ePc, eSid, eDone, eMsgClosed,
                   eQueue, eStream, eWriterPc, eShutdown>>

\* handleMessage after handleRequest: 200 for a message without id; else
\* *response is sent on session.Messages (a panic when response is nil or the
\* channel is closed) and 200 answered, with an empty body.
PostRespond(p) ==
    /\ SSEOnly
    /\ pPc[p] = "handled"
    /\ LET m == pMsg[p]
           c == pConn[p]
           r == SSEHandleRequest(m) IN
         IF m.id = NoId
           THEN /\ pStatus' = [pStatus EXCEPT ![p] = 200]
                /\ pBody' = [pBody EXCEPT ![p] = "empty"]
                /\ UNCHANGED eQueue
           ELSE IF r.none \/ eMsgClosed[c]
           THEN /\ pStatus' = [pStatus EXCEPT ![p] = -1]
                /\ UNCHANGED <<eQueue, pBody>>
           ELSE /\ Len(eQueue[c]) < MessagesCap
                /\ pStatus' = [pStatus EXCEPT ![p] = 200]
                /\ pBody' = [pBody EXCEPT ![p] = "empty"]
                /\ eQueue' = [eQueue EXCEPT ![c] = Append(@, p)]
    /\ pPc' = [pPc EXCEPT ![p] = "done"]
    /\ UNCHANGED <<eMethod, eStatus, eNow, eSessions, ePc, eSid, eDone, eMsgClosed,
                   eStream, eWriterPc, eSawInit, eShutdown, pConn, pMsg, pPreInit,
                   pSession>>

\* handleMessage, select case <-time.After(5 * time.Second): the send has been
\* blocked on a full channel; 408 is answered and the response dropped.
PostTimeout(p) ==
    /\ SSEOnly
    /\ pPc[p] = "handled"
    /\ pMsg[p].id # NoId
    /\ ~SSEHandleRequest(pMsg[p]).none
    /\ ~eMsgClosed[pConn[p]]
    /\ Len(eQueue[pConn[p]]) >= MessagesCap
    /\ pStatus' = [pStatus EXCEPT ![p] = 408]
    /\ pBody' = [pBody EXCEPT ![p] = "text"]
    /\ pPc' = [pPc EXCEPT ![p] = "done"]
    /\ UNCHANGED <<eMethod, eStatus, eNow, eSessions, ePc, eSid, eDone, eMsgClosed,
                   eQueue, eStream, eWriterPc, eSawInit, eShutdown, pConn, pMsg,
                   pPreInit, pSession>>

NextSSE ==
    \/ \E c \in Conns : Register(c)
    \/ \E c \in Conns, method \in {"POST", "OPTIONS"} : RefuseMethod(c, method)
    \/ \E c \in Conns : SendEndpoint(c)
    \/ \E c \in Conns : StartWriter(c)
    \/ \E c \in Conns : Unregister(c)
    \/ \E c \in Conns : CloseChannels(c)
    \/ Shutdown
    \/ \E c \in Conns : WriterRecv(c)
    \/ \E c \in Conns : WriterExit(c)
    \/ \E p \in Posts, sid \in Sids \cup {NoSid}, m \in SSEBodies : PostHandle(p, sid, m)
    \/ \E p \in Posts : PostRespond(p)
    \/ \E p \in Posts : PostTimeout(p)

----------------------------------------------------------------------------
(* SSH client manager: the connection pool *)

NGo == 2             \* goroutines calling Connect (through Execute)
NKeys == 3           \* distinct user@host:port keys
MaxConnections == 2  \* c.config.MaxConnections (10 by default, scaled down)
MaxClients == 4      \* ssh.Clients made in one run
MaxDead == 1         \* ssh.Clients whose connection is lost and that are not closed yet

Gos == 1 .. NGo
Keys == 1 .. NKeys
Clients == 1 .. MaxClients

InitPool ==
    /\ connections = [k \in Keys |-> 0]
    /\ cancelled = FALSE
    /\ crashed = FALSE
    /\ sshState = [n \in Clients |-> "unused"]
    /\ sshKey = [n \in Clients |-> 0]
    /\ sshReturned = [n \in Clients |-> FALSE]
    /\ nextSsh = 1
    /\ gPc = [g \in Gos |-> "idle"]
    /\ gKey = [g \in Gos |-> 0]
    /\ gClient = [g \in Gos |-> 0]
    /\ gEvicted = [g \in Gos |-> 0]
    /\ gLate = [g \in Gos |-> FALSE]

\* len(c.connections)
PoolLen(conns) == Cardinality({k \in Keys : conns[k] # 0})

\* c.mutex is read-locked by the callers between RLock and RUnlock.
Readers == {g \in Gos : gPc[g] \in {"rlocked", "found", "evicting"}}

\* Connect returns: the call's locals are gone.
Return(g) ==
    /\ gPc' = [gPc EXCEPT ![g] = "idle"]
    /\ gKey' = [gKey EXCEPT ![g] = 0]
    /\ gClient' = [gClient EXCEPT ![g] = 0]
    /\ gEvicted' = [gEvicted EXCEPT ![g] = 0]
    /\ gLate' = [gLate EXCEPT ![g] = FALSE]

\* The number of keys used so far.
KeysUsed ==
    Cardinality({k \in Keys : (\E g \in Gos : gKey[g] = k) \/ (\E n \in Clients : sshKey[n] = k)})

\* Connect: the key is made and c.mutex.RLock() taken (no writer holds the
\* lock between two steps: each write-locked section is one step).
ConnectRLock(g, k) ==
    /\ PoolOnly
    /\ ~crashed
    /\ gPc[g] = "idle"
    /\ k <= 1 + KeysUsed   \* keys are numbered in the order of their first use
    /\ gPc' = [gPc EXCEPT ![g] = "rlocked"]
    /\ gKey' = [gKey EXCEPT ![g] = k]
    /\ gClient' = [gClient EXCEPT ![g] = 0]
    /\ gEvicted' = [gEvicted EXCEPT ![g] = 0]
    /\ gLate' = [gLate EXCEPT ![g] = cancelled]
    /\ UNCHANGED <<connections, cancelled, crashed, sshState, sshKey,
                   sshReturned, nextSsh>>

\* client, exists := c.connections[connKey]; without an entry, RUnlock.
ConnectLookup(g) ==
    /\ PoolOnly
    /\ ~crashed
    /\ gPc[g] = "rlocked"
    /\ gClient' = [gClient EXCEPT ![g] = connections[gKey[g]]]
    /\ gPc' = [gPc EXCEPT ![g] = IF connections[gKey[g]] # 0 THEN "found" ELSE "creating"]
    /\ UNCHANGED <<connections, cancelled, crashed, sshState, sshKey,
                   sshReturned, nextSsh, gKey, gEvicted, gLate>>

\* Client.isConnectionAlive: a session can be opened on the client (and is
\* closed again at once).
IsConnectionAliveAlways(n) == TRUE
IsConnectionAlive(n) == sshState[n] = "open"

\* isConnectionAlive(client), with the read lock held: a live client is
\* returned after RUnlock.
ConnectAlive(g) ==
    /\ PoolOnly
    /\ ~crashed
    /\ gPc[g] = "found"
    /\ IF IsConnectionAlive(gClient[g])
         THEN /\ sshReturned' = [sshReturned EXCEPT ![gClient[g]] = TRUE]
              /\ Return(g)
         ELSE /\ gPc' = [gPc EXCEPT ![g] = "evicting"]
              /\ UNCHANGED <<sshReturned, gKey, gClient, gEvicted, gLate>>
    /\ UNCHANGED <<connections, cancelled, crashed, sshState, sshKey, nextSsh>>

\* Another caller is at a map access of its own under the read lock: its
\* lookup, or its delete.
Racing(g) == \E h \in Gos \ {g} : gPc[h] \in {"rlocked", "evicting"}

\* delete(c.connections, connKey)
EvictNothing(conns, k) == conns
Evict(conns, k) == [conns EXCEPT ![k] = 0]

\* delete(c.connections, connKey), with only the read lock held, then
\* RUnlock. When another reader is at a map access the two race: the runtime
\* either runs them one after the other or stops the process.
ConnectEvict(g) ==
    /\ PoolOnly
    /\ ~crashed
    /\ gPc[g] = "evicting"
    /\ \E fatal \in BOOLEAN :
         /\ fatal => Racing(g)
         /\ crashed' = fatal
         /\ IF fatal
              THEN UNCHANGED <<connections, gPc, gEvicted>>
              ELSE /\ connections' = Evict(connections, gKey[g])
                   /\ gPc' = [gPc EXCEPT ![g] = "creating"]
                   /\ gEvicted' = [gEvicted EXCEPT ![g] = PoolLen(connections)]
    /\ UNCHANGED <<cancelled, sshState, sshKey, sshReturned, nextSsh, gKey,
                   gClient, gLate>>

\* c.createConnection(info), with no lock held: a new ssh.Client, or an error
\* that Connect returns.
ConnectCreate(g) ==
    /\ PoolOnly
    /\ ~crashed
    /\ gPc[g] = "creating"
    /\ \E ok \in BOOLEAN :
         IF ok
           THEN /\ nextSsh <= MaxClients
                /\ sshState' = [sshState EXCEPT ![nextSsh] = "open"]
                /\ sshKey' = [sshKey EXCEPT ![nextSsh] = gKey[g]]
                /\ gClient' = [gClient EXCEPT ![g] = nextSsh]
                /\ nextSsh' = nextSsh + 1
                /\ gPc' = [gPc EXCEPT ![g] = "created"]
                /\ UNCHANGED <<gKey, gEvicted, gLate>>
           ELSE /\ Return(g)
                /\ UNCHANGED <<sshState, sshKey, nextSsh>>
    /\ UNCHANGED <<connections, cancelled, crashed, sshReturned>>

\* len(c.connections) >= c.config.MaxConnections
AtLimitNever(conns) == FALSE
AtLimit(conns) == PoolLen(conns) >= MaxConnections

\* c.connections[connKey] = client: whatever the key maps to is replaced, and
\* not closed.
Store(conns, k, n) == [conns EXCEPT ![k] = n]

\* The write-locked section of Connect (c.mutex.Lock, so no reader is inside):
\* at the limit the new client is closed and an error returned; otherwise the
\* new client is stored and returned.
ConnectStore(g) ==
    /\ PoolOnly
    /\ ~crashed
    /\ gPc[g] = "created"
    /\ Readers = {}
    /\ IF AtLimit(connections)
         THEN /\ sshState' = [sshState EXCEPT ![gClient[g]] = "closed"]
              /\ UNCHANGED <<connections, sshReturned>>
         ELSE /\ connections' = Store(connections, gKey[g], gClient[g])
              /\ sshReturned' = [sshReturned EXCEPT ![gClient[g]] = TRUE]
              /\ UNCHANGED sshState
    /\ Return(g)
    /\ UNCHANGED <<cancelled, crashed, sshKey, nextSsh>>

\* The connection of an ssh.Client is lost (network, remote side).
ConnDies(n) ==
    /\ PoolOnly
    /\ ~crashed
    /\ sshState[n] = "open"
    /\ Cardinality({d \in Clients : sshState[d] = "dead"}) < MaxDead
    /\ sshState' = [sshState EXCEPT ![n] = "dead"]
    /\ UNCHANGED <<connections, cancelled, crashed, sshKey, sshReturned,
                   nextSsh, gPc, gKey, gClient, gEvicted, gLate>>

\* Client.Close: c.cancel(); under c.mutex.Lock every pooled client is closed
\* and the pool replaced by an empty map.
PoolClose ==
    /\ PoolOnly
    /\ ~crashed
    /\ ~cancelled
    /\ Readers = {}
    /\ cancelled' = TRUE
    /\ sshState' = [n \in Clients |->
                      IF \E k \in Keys : connections[k] = n THEN "closed" ELSE sshState[n]]
    /\ connections' = [k \in Keys |-> 0]
    /\ UNCHANGED <<crashed, sshKey, sshReturned, nextSsh, gPc, gKey, gClient,
                   gEvicted, gLate>>

NextPool ==
    \/ \E g \in Gos, k \in Keys : ConnectRLock(g, k)
    \/ \E g \in Gos : ConnectLookup(g)
    \/ \E g \in Gos : ConnectAlive(g)
    \/ \E g \in Gos : ConnectEvict(g)
    \/ \E g \in Gos : ConnectCreate(g)
    \/ \E g \in Gos : ConnectStore(g)
    \/ \E n \in Clients : ConnDies(n)
    \/ PoolClose

----------------------------------------------------------------------------
(* One tools/call on each server *)

NoAnswer == [kind |-> "none", frame |-> ErrorFrame(NoId, 0)]

InitCall ==
    /\ kServer = "none"
    /\ kMsg = NoMessage
    /\ kAnswer = NoAnswer

\* The tools/call messages.
ToolCalls == {m \in Messages : m.json /\ m.v2 /\ m.method = "tools/call"}

\* The calls the SDK hands to a typed tool handler: the arguments have been
\* decoded into the handler's parameter struct.
TypedCalls ==
    {m \in ToolCalls : m.paramsOk /\ m.args = "ok"
                       /\ m.tool \in {"ssh_execute", "ssh_file_transfer"}}

\* MCPSSHServer.handleSSHExecute (SDK server): the CallToolResult, or the error
\* the handler returns to the SDK.
SDKHandleSSHExecute(m) ==
    LET r == Execute(m.exec) IN
    IF ~r.ok
      THEN [kind |-> "handlererror", frame |-> ErrorFrame(m.id, 0)]
      ELSE [kind |-> "frame",
            frame |-> ResultFrame(m.id, "ssh_execute", IsErrorFlag(r.exitCode))]

\* MCPSSHServer.handleSSHFileTransfer (SDK server)
SDKHandleSSHFileTransfer(m) ==
    [kind |-> "frame", frame |-> ResultFrame(m.id, "ssh_file_transfer", FALSE)]

\* The stdio server, initialized, handles the call.
CallStdio(m) ==
    /\ CallOnly
    /\ kServer' = "stdio"
    /\ kMsg' = m
    /\ LET h == StdioHandle(m, TRUE) IN
         kAnswer' = [kind |-> "frame", frame |-> h.frames[1]]

\* The HTTP/SSE server handles the call.
CallSSE(m) ==
    /\ CallOnly
    /\ kServer' = "sse"
    /\ kMsg' = m
    /\ kAnswer' = [kind |-> "frame", frame |-> SSEHandleRequest(m).frame]

\* The SDK server's handler of the named tool handles the call.
CallSDK(m) ==
    /\ CallOnly
    /\ kServer' = "sdk"
    /\ kMsg' = m
    /\ kAnswer' = IF m.tool = "ssh_execute" THEN SDKHandleSSHExecute(m)
                                            ELSE SDKHandleSSHFileTransfer(m)

NextCall ==
    \/ \E m \in ToolCalls : CallStdio(m)
    \/ \E m \in ToolCalls : CallSSE(m)
    \/ \E m \in TypedCalls : CallSDK(m)

----------------------------------------------------------------------------
(* The deadline of one ssh_execute *)

MaxSeconds == 3    \* timeout arguments and configured timeouts, in seconds

Seconds == 1 .. MaxSeconds
Durations == 0 .. (MaxSeconds + 1)

InitDeadline ==
    /\ tServer = "none"
    /\ tArg = 0
    /\ tConfig = 1
    /\ tParam = 0
    /\ tDeadline = 0
    /\ tDuration = 0
    /\ tOutcome = "none"

\* The timeout default of the stdio and SDK handlers:
\* if params.Timeout == 0 { params.Timeout = int(s.config.SSH.Timeout.Seconds()) }
TimeoutParam(arg, cfg) == IF arg = 0 THEN cfg ELSE arg

\* The deadline Client.Execute sets:
\* context.WithTimeout(c.ctx, c.config.Timeout); the call carries no timeout
\* (ConnectionInfo has no such field).
ExecuteDeadline(param, cfg) == cfg

\* Execute's select: the command's end (done) against ctx.Done(); when both
\* are ready at the deadline either case can be taken.
ExecuteEnds(duration, deadline) ==
    {o \in {"completed", "timeout"} :
        \/ o = "completed" /\ duration <= deadline
        \/ o = "timeout" /\ duration >= deadline}

\* MCPServer.handleSSHExecute and MCPSSHServer.handleSSHExecute: the timeout
\* argument gets its default, and Execute is called with the connection info
\* and the command.
ExecuteWithDefault(server, arg, cfg, duration) ==
    /\ DeadlineOnly
    /\ tServer' = server
    /\ tArg' = arg
    /\ tConfig' = cfg
    /\ tDuration' = duration
    /\ tParam' = TimeoutParam(arg, cfg)
    /\ tDeadline' = ExecuteDeadline(TimeoutParam(arg, cfg), cfg)
    /\ tOutcome' \in ExecuteEnds(duration, ExecuteDeadline(TimeoutParam(arg, cfg), cfg))

\* SSEServer.executeSSHCommand: the timeout argument is not read at all.
ExecuteSSE(arg, cfg, duration) ==
    /\ DeadlineOnly
    /\ tServer' = "sse"
    /\ tArg' = arg
    /\ tConfig' = cfg
    /\ tDuration' = duration
    /\ tParam' = 0
    /\ tDeadline' = ExecuteDeadline(0, cfg)
    /\ tOutcome' \in ExecuteEnds(duration, ExecuteDeadline(0, cfg))

NextDeadline ==
    \/ \E server \in {"stdio", "sdk"}, arg \in {0} \cup Seconds, cfg \in Seconds,
          duration \in Durations : ExecuteWithDefault(server, arg, cfg, duration)
    \/ \E arg \in {0} \cup Seconds, cfg \in Seconds, duration \in Durations :
          ExecuteSSE(arg, cfg, duration)

----------------------------------------------------------------------------
(* SSH authentication methods *)

\* A key file setting: no path, a plain path or one starting with "~", and
\* what is at the path: a private key, nothing readable, or no private key.
NoKey == [path |-> "none", file |-> "good"]
KeyFiles ==
    {NoKey} \cup [path : {"plain", "tilde"}, file : {"good", "unreadable", "unparsable"}]

\* What one call is given and finds: info.Password is set, info.KeyFile,
\* c.config.KeyFile, whether os.UserHomeDir succeeds, and whether the agent's
\* socket ($SSH_AUTH_SOCK) accepts a connection.
AuthInfos ==
    [password : BOOLEAN, argKey : KeyFiles, cfgKey : KeyFiles,
     home : BOOLEAN, agent : BOOLEAN]

NoAuthResult == [kind |-> "none", methods |-> <<>>]
AuthError(why) == [kind |-> why, methods |-> <<>>]

InitAuth ==
    /\ aInfo = [password |-> FALSE, argKey |-> NoKey, cfgKey |-> NoKey,
                home |-> TRUE, agent |-> FALSE]
    /\ aResult = NoAuthResult

\* The end of getAuthMethods: an error without any method.
AuthMethods(methods) ==
    IF methods = <<>> THEN AuthError("noauth")
                      ELSE [kind |-> "ok", methods |-> methods]

\* Client.getAuthMethods: the password first; then the key file, the
\* argument's if it is set and the configured one otherwise, where a failure
\* to expand "~", to read the file or to parse the key returns the error;
\* then the agent, if its socket can be dialled.
getAuthMethods(i) ==
    LET password == IF i.password THEN <<"password">> ELSE <<>>
        keyFile == IF i.argKey.path # "none" THEN i.argKey ELSE i.cfgKey
        agent == IF i.agent THEN <<"agent">> ELSE <<>>
    IN  IF keyFile.path = "none" THEN AuthMethods(password \o agent)
        ELSE IF keyFile.path = "tilde" /\ ~i.home THEN AuthError("home")
        ELSE IF keyFile.file = "unreadable" THEN AuthError("read")
        ELSE IF keyFile.file = "unparsable" THEN AuthError("parse")
        ELSE AuthMethods(password \o <<"publickey">> \o agent)

\* One call of getAuthMethods (from createConnection).
GetAuthMethods(i) ==
    /\ AuthOnly
    /\ aInfo' = i
    /\ aResult' = getAuthMethods(i)

NextAuth == \E i \in AuthInfos : GetAuthMethods(i)

----------------------------------------------------------------------------
(* Chat orchestrator: Start and CallTool *)

NServers == 2      \* servers in config.MCP.Servers

OServers == 1 .. NServers

\* Names are the sequences of their dot-separated parts: "a" and "a.b" for
\* servers, "c" and "b.c" for tools.
ServerNames == {<<"a">>, <<"a", "b">>}
BareNames == {<<"c">>, <<"b", "c">>}

\* fmt.Sprintf("%s.%s", conn.Name, tool.Name)
QualifiedName(server, tool) == server \o tool

\* The names CallTool is given: every qualified name, and a bare one.
CallNames == {QualifiedName(s, t) : s \in ServerNames, t \in BareNames} \cup {<<"c">>}

NoTool == [server |-> <<>>, tool |-> <<>>]
NoCall == [name |-> <<>>, sent |-> <<>>, result |-> "none"]

Configs == [OServers -> [name : ServerNames, enabled : BOOLEAN]]

InitOrch ==
    /\ oPc = "new"
    /\ oConfig = [s \in OServers |-> [name |-> <<"a">>, enabled |-> FALSE]]
    /\ oGo = [s \in OServers |-> "none"]
    /\ oErrors = 0
    /\ oServers = [n \in ServerNames |-> 0]
    /\ oTools = [k \in CallNames |-> NoTool]
    /\ oResult = "none"
    /\ oCall = NoCall

\* config.GetEnabledMCPServers
Enabled(cfg) == {s \in OServers : cfg[s].enabled}

\* NewMCPClient(cfg, logger)
NewMCPClient(cfg) ==
    /\ OrchOnly
    /\ oPc = "new"
    /\ oPc' = "idle"
    /\ oConfig' = cfg
    /\ UNCHANGED <<oGo, oErrors, oServers, oTools, oResult, oCall>>

\* Start, up to wg.Wait: an error without any enabled server, else one
\* goroutine per enabled server.
StartBegin ==
    /\ OrchOnly
    /\ oPc = "idle"
    /\ IF Enabled(oConfig) = {}
         THEN /\ oPc' = "returned"
              /\ oResult' = "error"
              /\ UNCHANGED oGo
         ELSE /\ oPc' = "connecting"
              /\ oGo' = [s \in OServers |-> IF s \in Enabled(oConfig) THEN "running" ELSE "none"]
              /\ UNCHANGED oResult
    /\ UNCHANGED <<oConfig, oErrors, oServers, oTools, oCall>>

\* connectServer through loadServerTools: a failure at any step (pipes,
\* process start, handshake, tools/list) is returned and sent on the errors
\* channel; otherwise the tools the server lists are registered under their
\* qualified names (under c.mutex.Lock).
LoadServerTools(s, ok, listed) ==
    /\ OrchOnly
    /\ oGo[s] = "running"
    /\ IF ok
         THEN /\ oGo' = [oGo EXCEPT ![s] = "loaded"]
              /\ oTools' = [k \in CallNames |->
                              IF \E t \in listed : k = QualifiedName(oConfig[s].name, t)
                                THEN [server |-> oConfig[s].name,
                                      tool |-> CHOOSE t \in listed :
                                                  k = QualifiedName(oConfig[s].name, t)]
                                ELSE oTools[k]]
              /\ UNCHANGED oErrors
         ELSE /\ oGo' = [oGo EXCEPT ![s] = "failed"]
              /\ oErrors' = oErrors + 1
              /\ UNCHANGED oTools
    /\ UNCHANGED <<oPc, oConfig, oServers, oResult, oCall>>

\* connectServer's end: c.servers[serverConfig.Name] = conn; conn.Connected =
\* true (under c.mutex.Lock).
SaveConnection(s) ==
    /\ OrchOnly
    /\ oGo[s] = "loaded"
    /\ oGo' = [oGo EXCEPT ![s] = "connected"]
    /\ oServers' = [oServers EXCEPT ![oConfig[s].name] = s]
    /\ UNCHANGED <<oPc, oConfig, oErrors, oTools, oResult, oCall>>

\* Some server failed to connect.
SomeFailed(errors, enabled) == errors > 0

\* len(connectErrors) == len(enabledServers)
AllFailed(errors, enabled) == errors = Cardinality(enabled)

\* Start after wg.Wait(): the errors are counted.
StartFinish ==
    /\ OrchOnly
    /\ oPc = "connecting"
    /\ \A s \in Enabled(oConfig) : oGo[s] \in {"connected", "failed"}
    /\ oPc' = "returned"
    /\ oResult' = IF AllFailed(oErrors, Enabled(oConfig)) THEN "error" ELSE "ok"
    /\ UNCHANGED <<oConfig, oGo, oErrors, oServers, oTools, oCall>>

\* The name sent is the name CallTool was given.
WireNameQualified(name, info) == name

\* "name": toolInfo.Tool.Name
WireName(name, info) == info.tool

\* CallTool(toolName, arguments): the tool and its server's connection are
\* looked up (under c.mutex.RLock); an error without either, else one
\* tools/call request is sent to that connection.
CallTool(name) ==
    /\ OrchOnly
    /\ oPc # "new"
    /\ LET info == oTools[name] IN
         oCall' = IF info = NoTool
                    THEN [name |-> name, sent |-> <<>>, result |-> "notool"]
                  ELSE IF oServers[info.server] = 0
                    THEN [name |-> name, sent |-> <<>>, result |-> "notconnected"]
                  ELSE [name |-> name,
                        sent |-> <<[conn |-> oServers[info.server],
                                    server |-> info.server,
                                    tool |-> WireName(name, info)]>>,
                        result |-> "sent"]
    /\ UNCHANGED <<oPc, oConfig, oGo, oErrors, oServers, oTools, oResult>>

NextOrch ==
    \/ \E cfg \in Configs : NewMCPClient(cfg)
    \/ StartBegin
    \/ \E s \in OServers, ok \in BOOLEAN, listed \in SUBSET BareNames :
          LoadServerTools(s, ok, listed)
    \/ \E s \in OServers : SaveConnection(s)
    \/ StartFinish
    \/ \E name \in CallNames : CallTool(name)

----------------------------------------------------------------------------
(* JSON-RPC messages through encoding/json *)

\* A member of a JSON object: not there at all, or one of the JSON values
\* the messages carry. An object or array is told by its number of items.
MaxId == 1
MaxItems == 1
Absent == [kind |-> "absent", n |-> 0, s |-> ""]
Null == [kind |-> "null", n |-> 0, s |-> ""]
False == [kind |-> "false", n |-> 0, s |-> ""]
Number(n) == [kind |-> "number", n |-> n, s |-> ""]
String(s) == [kind |-> "string", n |-> 0, s |-> s]
Object(n) == [kind |-> "object", n |-> n, s |-> ""]
Array(n) == [kind |-> "array", n |-> n, s |-> ""]

IdValues == {Null} \cup {String(s) : s \in {"", "a"}} \cup {Number(n) : n \in 0..MaxId}
ParamsValues == {Object(n) : n \in 0..MaxItems} \cup {Array(n) : n \in 0..MaxItems}
ResultValues ==
    {Null, False, Number(0), String(""), String("a")} \cup {Object(n) : n \in 0..MaxItems}
DataValues == {Absent, Null, String("d")}
ErrorCodes == {-32700, -32601}

\* A message as a JSON object: its members, and the members of its error
\* object when it has one.
NoJSON ==
    [jsonrpc |-> Absent, id |-> Absent, method |-> Absent, params |-> Absent,
     result |-> Absent, error |-> Absent, code |-> Absent, message |-> Absent,
     data |-> Absent]

ValidRequests ==
    {[NoJSON EXCEPT !.jsonrpc = String("2.0"), !.id = id, !.method = String(method),
                    !.params = params] :
        id \in IdValues, method \in {"ping", "tools/call"},
        params \in ParamsValues \cup {Absent}}

ValidNotifications ==
    {[NoJSON EXCEPT !.jsonrpc = String("2.0"), !.method = String("notifications/initialized"),
                    !.params = params] :
        params \in ParamsValues \cup {Absent}}

ValidResults ==
    {[NoJSON EXCEPT !.jsonrpc = String("2.0"), !.id = id, !.result = result] :
        id \in IdValues, result \in ResultValues}

ValidErrors ==
    {[NoJSON EXCEPT !.jsonrpc = String("2.0"), !.id = id, !.error = Object(2),
                    !.code = Number(code), !.message = String("e"), !.data = data] :
        id \in IdValues, code \in ErrorCodes, data \in DataValues}

ValidMessages == ValidRequests \cup ValidNotifications \cup ValidResults \cup ValidErrors

\* What an interface{} holds: nil, or a value of the type json.Unmarshal
\* chooses (bool, float64, string, map[string]interface{}, []interface{}).
Nil == [type |-> "nil", n |-> 0, s |-> ""]

\* json.Unmarshal into an interface{} field: a member that is not there
\* leaves the field as it was (nil), null sets nil, a number becomes a
\* float64 (exact for the ids and values here, far below 2^53).
UnmarshalInterface(v) ==
    CASE v.kind \in {"absent", "null"} -> Nil
      [] v.kind = "false" -> [type |-> "bool", n |-> 0, s |-> ""]
      [] v.kind = "number" -> [type |-> "float64", n |-> v.n, s |-> ""]
      [] v.kind = "string" -> [type |-> "string", n |-> 0, s |-> v.s]
      [] v.kind = "object" -> [type |-> "map", n |-> v.n, s |-> ""]
      [] v.kind = "array" -> [type |-> "slice", n |-> v.n, s |-> ""]

\* json.Unmarshal into a string field: absent and null leave "".
UnmarshalString(v) == IF v.kind = "string" THEN v.s ELSE ""

\* json.Unmarshal into an int field.
UnmarshalInt(v) == IF v.kind = "number" THEN v.n ELSE 0

\* json.Marshal of what an interface{} holds; an integral float64 is
\* written without fraction or exponent.
MarshalInterface(g) ==
    CASE g.type = "nil" -> Null
      [] g.type = "bool" -> False
      [] g.type = "float64" -> Number(g.n)
      [] g.type = "string" -> String(g.s)
      [] g.type = "map" -> Object(g.n)
      [] g.type = "slice" -> Array(g.n)

\* A field tagged omitempty: an interface{} is left out when it is nil,
\* whatever it holds otherwise (false, 0, "" and empty maps are kept).
OmitEmpty(g) == IF g.type = "nil" THEN Absent ELSE MarshalInterface(g)

\* The zero values of the three structs; Error is a pointer.
NilError == [nil |-> TRUE, Code |-> 0, Message |-> "", Data |-> Nil]
ZeroRequest == [JSONRPC |-> "", ID |-> Nil, Method |-> "", Params |-> Nil]
ZeroResponse == [JSONRPC |-> "", ID |-> Nil, Result |-> Nil, Error |-> NilError]

\* json.Unmarshal(text, &MCPRequest{}): members without a field are dropped.
UnmarshalRequest(j) ==
    [JSONRPC |-> UnmarshalString(j.jsonrpc), ID |-> UnmarshalInterface(j.id),
     Method |-> UnmarshalString(j.method), Params |-> UnmarshalInterface(j.params)]

\* json.Unmarshal into *MCPError: nil unless there is an error object.
UnmarshalError(j) ==
    IF j.error.kind # "object" THEN NilError
    ELSE [nil |-> FALSE, Code |-> UnmarshalInt(j.code),
          Message |-> UnmarshalString(j.message), Data |-> UnmarshalInterface(j.data)]

\* json.Unmarshal(text, &MCPResponse{}).
UnmarshalResponse(j) ==
    [JSONRPC |-> UnmarshalString(j.jsonrpc), ID |-> UnmarshalInterface(j.id),
     Result |-> UnmarshalInterface(j.result), Error |-> UnmarshalError(j)]

\* json.Marshal(MCPRequest): jsonrpc and method always, id and params
\* unless empty.
MarshalRequest(r) ==
    [NoJSON EXCEPT !.jsonrpc = String(r.JSONRPC), !.id = OmitEmpty(r.ID),
                   !.method = String(r.Method), !.params = OmitEmpty(r.Params)]

\* json.Marshal(MCPResponse): jsonrpc always; id, result and error unless
\* empty; within the error, code and message always and data unless empty.
MarshalResponse(r) ==
    IF r.Error.nil
    THEN [NoJSON EXCEPT !.jsonrpc = String(r.JSONRPC), !.id = OmitEmpty(r.ID),
                        !.result = OmitEmpty(r.Result)]
    ELSE [NoJSON EXCEPT !.jsonrpc = String(r.JSONRPC), !.id = OmitEmpty(r.ID),
                        !.result = OmitEmpty(r.Result), !.error = Object(2),
                        !.code = Number(r.Error.Code),
                        !.message = String(r.Error.Message),
                        !.data = OmitEmpty(r.Error.Data)]

\* A message with a method is a request or a notification.
IsRequest(j) == j.method.kind # "absent"

InitCodec ==
    /\ jPc = "idle"
    /\ jIn = NoJSON
    /\ jRequest = ZeroRequest
    /\ jResponse = ZeroResponse
    /\ jOut = NoJSON

\* A valid message arrives.
ReadMessage(j) ==
    /\ CodecOnly
    /\ jPc = "idle"
    /\ jPc' = "read"
    /\ jIn' = j
    /\ UNCHANGED <<jRequest, jResponse, jOut>>

\* json.Unmarshal into the struct of the message's kind.
Unmarshal ==
    /\ CodecOnly
    /\ jPc = "read"
    /\ jPc' = "decoded"
    /\ jRequest' = IF IsRequest(jIn) THEN UnmarshalRequest(jIn) ELSE ZeroRequest
    /\ jResponse' = IF IsRequest(jIn) THEN ZeroResponse ELSE UnmarshalResponse(jIn)
    /\ UNCHANGED <<jIn, jOut>>

\* json.Marshal of the struct that was filled.
Marshal ==
    /\ CodecOnly
    /\ jPc = "decoded"
    /\ jPc' = "encoded"
    /\ jOut' = IF IsRequest(jIn) THEN MarshalRequest(jRequest)
                                 ELSE MarshalResponse(jResponse)
    /\ UNCHANGED <<jIn, jRequest, jResponse>>

NextCodec ==
    \/ \E j \in ValidMessages : ReadMessage(j)
    \/ Unmarshal
    \/ Marshal

----------------------------------------------------------------------------
(* SSE client: Connect and the endpoint event *)

MaxEvents == 2       \* events the server writes to one stream

\* An event of the stream: its name and whether its data line is empty, the
\* first or the second of the endpoints a server may name.
Events ==
    [event : {"endpoint"}, data : {"", "u1", "u2"}] \cup
    [event : {"message"}, data : {"u1"}]

Streams == UNION {[1..n -> Events] : n \in 0..MaxEvents}

InitConnect ==
    /\ nPc = "new"
    /\ nStream = <<>>
    /\ nReading = FALSE
    /\ nEndpoint = ""
    /\ nConnected = FALSE
    /\ nCancelled = FALSE
    /\ nSeen = FALSE
    /\ nResult = "none"

\* Connect up to `go c.readSSEMessages(resp.Body)`: the GET fails, or is
\* answered with another status than 200, and Connect returns the error;
\* or the reader is started on the body.
ConnectDial(status, stream) ==
    /\ ConnectOnly
    /\ nPc = "new"
    /\ ~nCancelled
    /\ IF status = 200
         THEN /\ nPc' = "started"
              /\ nStream' = stream
              /\ nReading' = TRUE
              /\ UNCHANGED nResult
         ELSE /\ nPc' = "returned"
              /\ nResult' = "status"
              /\ UNCHANGED <<nStream, nReading>>
    /\ UNCHANGED <<nEndpoint, nConnected, nCancelled, nSeen>>

\* Connect reaches its select and blocks in it.
ConnectWait ==
    /\ ConnectOnly
    /\ nPc = "started"
    /\ nPc' = "waiting"
    /\ UNCHANGED <<nStream, nReading, nEndpoint, nConnected, nCancelled, nSeen, nResult>>

\* The send of handleSSEEvent on the unbuffered endpointReady, in a select
\* with a default case: it is received only by a Connect that is blocked in
\* its select already, and is dropped otherwise.
TrySend(pc) == IF pc = "waiting" THEN "woken" ELSE pc

\* readSSEMessages reads one event and handleSSEEvent handles it: an
\* endpoint event sets c.endpoint and signals endpointReady.
ReadEvent ==
    /\ ConnectOnly
    /\ nReading
    /\ nStream # <<>>
    /\ LET e == Head(nStream) IN
         IF e.event = "endpoint"
           THEN /\ nEndpoint' = e.data
                /\ nSeen' = (nSeen \/ e.data # "")
                /\ nPc' = TrySend(nPc)
           ELSE UNCHANGED <<nEndpoint, nSeen, nPc>>
    /\ nStream' = Tail(nStream)
    /\ UNCHANGED <<nReading, nConnected, nCancelled, nResult>>

\* The body ends (scanner.Scan returns false) and the reader returns.
ReadEnd ==
    /\ ConnectOnly
    /\ nReading
    /\ nStream = <<>> \/ nCancelled
    /\ nReading' = FALSE
    /\ UNCHANGED <<nPc, nStream, nEndpoint, nConnected, nCancelled, nSeen, nResult>>

\* Connect after case <-c.endpointReady: an empty c.endpoint is an error,
\* otherwise c.connected is set.
ConnectReady ==
    /\ ConnectOnly
    /\ nPc = "woken"
    /\ nPc' = "returned"
    /\ nResult' = IF nEndpoint = "" THEN "noendpoint" ELSE "ok"
    /\ nConnected' = (nEndpoint # "")
    /\ UNCHANGED <<nStream, nReading, nEndpoint, nCancelled, nSeen>>

\* Connect, case <-time.After(10 * time.Second).
ConnectTimeout ==
    /\ ConnectOnly
    /\ nPc = "waiting"
    /\ nPc' = "returned"
    /\ nResult' = "timeout"
    /\ UNCHANGED <<nStream, nReading, nEndpoint, nConnected, nCancelled, nSeen>>

\* Connect, case <-c.ctx.Done().
ConnectCancelled ==
    /\ ConnectOnly
    /\ nPc = "waiting"
    /\ nCancelled
    /\ nPc' = "returned"
    /\ nResult' = "cancelled"
    /\ UNCHANGED <<nStream, nReading, nEndpoint, nConnected, nCancelled, nSeen>>

\* SSEClient.Close from another goroutine: c.connected = false, c.cancel().
ConnectClose ==
    /\ ConnectOnly
    /\ ~nCancelled
    /\ nPc # "new"
    /\ nCancelled' = TRUE
    /\ nConnected' = FALSE
    /\ UNCHANGED <<nPc, nStream, nReading, nEndpoint, nSeen, nResult>>

NextConnect ==
    \/ \E status \in {200, 405}, stream \in Streams : ConnectDial(status, stream)
    \/ ConnectWait
    \/ ReadEvent
    \/ ReadEnd
    \/ ConnectReady
    \/ ConnectTimeout
    \/ ConnectCancelled
    \/ ConnectClose

----------------------------------------------------------------------------
(* Client.Execute: the goroutine that drains the session *)

MaxChunks == 3       \* pieces of output the command writes to each pipe
DoneCap == 1         \* done := make(chan error, 1)

InitExecute ==
    /\ xPc = "idle"
    /\ xGo = "none"
    /\ xOutLeft = 0
    /\ xErrLeft = 0
    /\ xOutDone = FALSE
    /\ xErrDone = FALSE
    /\ xRemote = "none"
    /\ xDone = <<>>
    /\ xOutcome = "none"

\* Execute up to its select: Connect, NewSession, the pipes or session.Start
\* fail and Execute returns the error; or the command is started and the
\* goroutine launched.
ExecuteStart(ok, out, err) ==
    /\ ExecuteOnly
    /\ xPc = "idle"
    /\ IF ok
         THEN /\ xPc' = "selecting"
              /\ xGo' = "draining"
              /\ xOutLeft' = out
              /\ xErrLeft' = err
              /\ xRemote' = "running"
              /\ UNCHANGED xOutcome
         ELSE /\ xPc' = "returned"
              /\ xOutcome' = "failed"
              /\ UNCHANGED <<xGo, xOutLeft, xErrLeft, xRemote>>
    /\ UNCHANGED <<xOutDone, xErrDone, xDone>>

\* The remote command exits; its pipes end after what it wrote.
RemoteExit ==
    /\ ExecuteOnly
    /\ xRemote = "running"
    /\ xRemote' = "exited"
    /\ UNCHANGED <<xPc, xGo, xOutLeft, xErrLeft, xOutDone, xErrDone, xDone, xOutcome>>

\* io.ReadAll(stdout) reads on, and returns at the end of the pipe: the
\* command has exited or the session was closed.
ReadStdout ==
    /\ ExecuteOnly
    /\ xGo = "draining"
    /\ ~xOutDone
    /\ IF xOutLeft > 0
         THEN xOutLeft' = xOutLeft - 1 /\ UNCHANGED xOutDone
         ELSE xRemote # "running" /\ xOutDone' = TRUE /\ UNCHANGED xOutLeft
    /\ UNCHANGED <<xPc, xGo, xErrLeft, xErrDone, xRemote, xDone, xOutcome>>

\* io.ReadAll(stderr), the same.
ReadStderr ==
    /\ ExecuteOnly
    /\ xGo = "draining"
    /\ ~xErrDone
    /\ IF xErrLeft > 0
         THEN xErrLeft' = xErrLeft - 1 /\ UNCHANGED xErrDone
         ELSE xRemote # "running" /\ xErrDone' = TRUE /\ UNCHANGED xErrLeft
    /\ UNCHANGED <<xPc, xGo, xOutLeft, xOutDone, xRemote, xDone, xOutcome>>

\* wg.Wait() returns once both readers are done.
GoWait ==
    /\ ExecuteOnly
    /\ xGo = "draining"
    /\ xOutDone /\ xErrDone
    /\ xGo' = "waiting"
    /\ UNCHANGED <<xPc, xOutLeft, xErrLeft, xOutDone, xErrDone, xRemote, xDone, xOutcome>>

\* session.Wait() returns: the command has exited or the session was closed.
GoSessionWait ==
    /\ ExecuteOnly
    /\ xGo = "waiting"
    /\ xRemote # "running"
    /\ xGo' = "sending"
    /\ UNCHANGED <<xPc, xOutLeft, xErrLeft, xOutDone, xErrDone, xRemote, xDone, xOutcome>>

\* A send on done can go ahead: the buffer has room. (On a channel without
\* buffer it could only with Execute waiting in its select.)
SendReadyUnbuffered(buf, receiving) == receiving
SendReady(buf, receiving) == Len(buf) < DoneCap

\* done <- session.Wait(), and the goroutine ends.
GoSend ==
    /\ ExecuteOnly
    /\ xGo = "sending"
    /\ SendReady(xDone, xPc = "selecting")
    /\ xDone' = Append(xDone, xRemote)
    /\ xGo' = "exited"
    /\ UNCHANGED <<xPc, xOutLeft, xErrLeft, xOutDone, xErrDone, xRemote, xOutcome>>

\* The deferred session.Close() of Execute: a session still running is closed.
SessionClose(remote) == IF remote = "running" THEN "closed" ELSE remote

\* select case err := <-done: nil or an *ssh.ExitError is a completed
\* command, another error is returned.
ExecuteDone ==
    /\ ExecuteOnly
    /\ xPc = "selecting"
    /\ xDone # <<>>
    /\ xOutcome' = IF Head(xDone) = "exited" THEN "completed" ELSE "waitfailed"
    /\ xDone' = Tail(xDone)
    /\ xPc' = "returned"
    /\ xRemote' = SessionClose(xRemote)
    /\ UNCHANGED <<xGo, xOutLeft, xErrLeft, xOutDone, xErrDone>>

\* select case <-ctx.Done(): the deadline has passed or Close cancelled
\* c.ctx; session.Signal(SIGTERM), the error, and the deferred session.Close().
ExecuteCtxDone ==
    /\ ExecuteOnly
    /\ xPc = "selecting"
    /\ xOutcome' = "timeout"
    /\ xPc' = "returned"
    /\ xRemote' = SessionClose(xRemote)
    /\ UNCHANGED <<xGo, xOutLeft, xErrLeft, xOutDone, xErrDone, xDone>>

\* The steps of the goroutine and of its two readers.
GoStep == ReadStdout \/ ReadStderr \/ GoWait \/ GoSessionWait \/ GoSend

\* The ways Execute leaves its select.
ExecuteReturn == ExecuteDone \/ ExecuteCtxDone

NextExecute ==
    \/ \E ok \in BOOLEAN, out \in 0..MaxChunks, err \in 0..MaxChunks : ExecuteStart(ok, out, err)
    \/ RemoteExit
    \/ ReadStdout
    \/ ReadStderr
    \/ GoWait
    \/ GoSessionWait
    \/ GoSend
    \/ ExecuteDone
    \/ ExecuteCtxDone

----------------------------------------------------------------------------
(* Chat engine: the message history *)

MaxMaxHistory == 3   \* config.Chat.MaxHistory is 1 .. MaxMaxHistory
MaxChats == 3        \* Chat calls in one run

\* A message of the history: its role and its number in the order of writing.
Message(role, n) == [role |-> role, n |-> n]

\* The messages of a list with, or without, the system role, in their order.
SelectRole(msgs, system) ==
    SelectSeq(msgs, LAMBDA msg : (msg.role = "system") = system)

\* The last n items of a list: list[len(list)-n:]
LastN(list, n) == SubSeq(list, Len(list) - n + 1, Len(list))

InitChat ==
    /\ hMax = 0
    /\ hMessages = <<>>
    /\ hUntrimmed = <<>>
    /\ hSent = <<>>
    /\ hNext = 1

\* NewChatEngine with a configuration Validate accepts (MaxHistory > 0): the
\* system prompt, when one is configured, is the first message.
NewChatEngine(max, prompt) ==
    /\ ChatOnly
    /\ hMax = 0
    /\ hMax' = max
    /\ hMessages' = IF prompt THEN <<Message("system", 0)>> ELSE <<>>
    /\ UNCHANGED <<hUntrimmed, hSent, hNext>>

\* ChatEngine.addMessage
addMessage(msgs, role, n) == Append(msgs, Message(role, n))

\* ChatEngine.trimHistory: a list within MaxHistory is kept; otherwise the
\* system messages, then the last MaxHistory - len(systemMessages) others.
trimHistory(msgs, max) ==
    IF Len(msgs) <= max THEN msgs
    ELSE LET systemMessages == SelectRole(msgs, TRUE)
             otherMessages == SelectRole(msgs, FALSE)
             maxOtherMessages == max - Len(systemMessages)
         IN  IF Len(otherMessages) > maxOtherMessages
               THEN systemMessages \o LastN(otherMessages, maxOtherMessages)
               ELSE systemMessages \o otherMessages

\* What the completion API and the tools add to the history after the first
\* request: nothing when the call fails, the assistant's answer, or the
\* assistant's tool call, the tool's result and (unless the second request
\* fails) the final answer.
Replies == {"failed", "answer", "tool", "toolthenfailed"}
AfterReply(msgs, reply, n) ==
    CASE reply = "failed" -> msgs
      [] reply = "answer" -> addMessage(msgs, "assistant", n + 1)
      [] reply = "toolthenfailed" ->
             addMessage(addMessage(msgs, "assistant", n + 1), "tool", n + 2)
      [] reply = "tool" ->
             addMessage(addMessage(addMessage(msgs, "assistant", n + 1), "tool", n + 2),
                        "assistant", n + 3)

\* ChatEngine.Chat: the user message is added, the history trimmed, the
\* first completion request sent with e.messages, and the reply added.
Chat(reply) ==
    /\ ChatOnly
    /\ hMax > 0
    /\ hNext <= 4 * MaxChats
    /\ LET added == addMessage(hMessages, "user", hNext)
           trimmed == trimHistory(added, hMax)
       IN  /\ hUntrimmed' = added
           /\ hSent' = trimmed
           /\ hMessages' = AfterReply(trimmed, reply, hNext)
    /\ hNext' = hNext + 4
    /\ UNCHANGED hMax

\* ChatEngine.ClearHistory: only the system messages stay.
ClearHistory ==
    /\ ChatOnly
    /\ hMax > 0
    /\ hMessages' = SelectRole(hMessages, TRUE)
    /\ UNCHANGED <<hMax, hUntrimmed, hSent, hNext>>

NextChat ==
    \/ \E max \in 1..MaxMaxHistory, prompt \in BOOLEAN : NewChatEngine(max, prompt)
    \/ \E reply \in Replies : Chat(reply)
    \/ ClearHistory

----------------------------------------------------------------------------
(* Specifications *)

\* The state after construction, with the client on either transport.
Init == InitClient /\ InitStdio /\ InitSSE /\ InitPool /\ InitCall /\ InitDeadline /\ InitAuth /\ InitOrch /\ InitCodec /\ InitConnect /\ InitExecute /\ InitChat

\* The same with the client fixed, for the specifications of the servers.
InitServers == ClientIdle /\ InitStdio /\ InitSSE /\ InitPool /\ InitCall /\ InitDeadline /\ InitAuth /\ InitOrch /\ InitCodec /\ InitConnect /\ InitExecute /\ InitChat

SpecClient == Init /\ [][NextClient]_vars

SpecStdio == InitServers /\ [][NextStdio]_vars

SpecSSE == InitServers /\ [][NextSSE]_vars

SpecPool == InitServers /\ [][NextPool]_vars

SpecDeadline == InitServers /\ [][NextDeadline]_vars

SpecAuth == InitServers /\ [][NextAuth]_vars

SpecOrch == InitServers /\ [][NextOrch]_vars

SpecCodec == InitServers /\ [][NextCodec]_vars

SpecConnect == InitServers /\ [][NextConnect]_vars

\* Execute with its scheduling: goroutines that can run do run, the
\* context's deadline passes, and a session that was closed ends its pipes;
\* the remote command itself may never exit.
SpecExecute == InitServers /\ [][NextExecute]_vars /\ WF_vars(GoStep) /\ WF_vars(ExecuteReturn)

SpecChat == InitServers /\ [][NextChat]_vars

SpecCall == InitServers /\ [][NextCall]_vars

(* C1 *)

Returned(k) == cPc[k] = "done" /\ cAccepted[k]

AwaitingInitCall ==
    /\ sLines > 0
    /\ ~sLastWasInit
    /\ sLastMsg.json /\ sLastMsg.v2
    /\ sLastMsg.method \notin {"initialize", "notifications/initialized"}

\* C2 (as stated): in awaiting-init every call whose method is not initialize
\* is rejected with error -32000, and no tool handler runs for it.
C2_AsStated ==
    AwaitingInitCall /\ sLastMsg.id # NoId =>
        /\ sLastFrames = <<ErrorFrame(sLastMsg.id, ServerError)>>
        /\ sLastRan = "none"

\* C2 (amended): in awaiting-init tools/list and tools/call are rejected with
\* error -32000 and every method the server does not know with error -32601;
\* in both cases exactly one error frame is written, no tool handler runs and
\* the server stays in awaiting-init.
C2_Rejected ==
    AwaitingInitCall =>
        /\ sLastFrames =
             <<ErrorFrame(sLastMsg.id,
                          IF sLastMsg.method \in {"tools/list", "tools/call"}
                            THEN ServerError ELSE MethodNotFound)>>
        /\ sLastRan = "none"
        /\ ~sInitialized

\* A well-formed tools/call for ssh_execute was rejected in awaiting-init.
C2_Witness ==
    /\ AwaitingInitCall
    /\ sLastMsg.method = "tools/call" /\ sLastMsg.tool = "ssh_execute"
    /\ sLastMsg.paramsOk /\ sLastMsg.args = "ok" /\ sLastMsg.id # NoId
    /\ sLastFrames = <<ErrorFrame(sLastMsg.id, ServerError)>>

(* C3 *)

\* The frame the HTTP/SSE server made for POST p.
PostFrame(p) == SSEHandleRequest(pMsg[p]).frame

\* C3: a tools/list or tools/call request POSTed to a session that has not
\* received notifications/initialized is answered, on the session's stream,
\* with an error in the server-error band (-32099 .. -32000), never a result.
C3_GatedBeforeInit ==
    \A c \in Conns : \A i \in 1 .. Len(eStream[c]) :
        LET p == eStream[c][i] IN
        (p # Endpoint /\ pPreInit[p]
            /\ pMsg[p].method \in {"tools/list", "tools/call"}) =>
                /\ PostFrame(p).kind = "error"
                /\ PostFrame(p).code >= -32099 /\ PostFrame(p).code <= ServerError

(* C4 *)

\* C4: whenever the stdio server's initialized flag is true, an initialize
\* request was answered with a result earlier in the run.
C4_InitializedAfterExchange == sInitialized => sInitOk

(* C5 *)

\* C5: a well-formed message without id gets no frame at all from the stdio
\* server, whatever its method.
C5_StdioSilent ==
    (sLines > 0 /\ sLastMsg.json /\ sLastMsg.v2 /\ sLastMsg.id = NoId) =>
        sLastFrames = <<>>

(* C6 *)

\* C6: the connection pool never holds more than MaxConnections entries.
C6_PoolBound == PoolLen(connections) <= MaxConnections

\* The pool is full and a Connect has been refused at the limit: the client it
\* had made was closed, without Close having run.
C6_Witness ==
    /\ PoolLen(connections) = MaxConnections
    /\ ~cancelled
    /\ \E n \in Clients : sshState[n] = "closed" /\ ~sshReturned[n]

(* C7 *)

\* The open ssh.Clients that Connect has returned for key k
LiveFor(k) == {n \in Clients : sshState[n] = "open" /\ sshKey[n] = k /\ sshReturned[n]}

\* C7: for any key at most one open client obtained through Connect exists.
C7_OneLivePerKey == \A k \in Keys : Cardinality(LiveFor(k)) <= 1

(* C8 *)

\* C8: each stream carries exactly one endpoint event once handleSSE has sent
\* it, none before (and none for a request that opens no stream), and the
\* endpoint event is the first event of the stream: every message event comes
\* after it.
C8_EndpointFirst ==
    \A c \in Conns :
        /\ ePc[c] \in {"none", "registered", "refused"} => eStream[c] = <<>>
        /\ ePc[c] \notin {"none", "registered", "refused"} =>
               /\ Len(eStream[c]) >= 1
               /\ eStream[c][1] = Endpoint
               /\ \A i \in 2 .. Len(eStream[c]) : eStream[c][i] # Endpoint

\* A stream holds its endpoint event followed by the message event of a POST
\* made to its session.
C8_Witness ==
    \E c \in Conns : \E p \in Posts :
        /\ pConn[p] = c
        /\ eStream[c] = <<Endpoint, p>>

(* C9 *)

\* The server accepted POST p, a request with an id: it answered 200.
Accepted(p) == pPc[p] = "done" /\ pStatus[p] = 200 /\ pMsg[p].id # NoId

\* The message events for POST p on stream c, and its queued responses.
Written(c, p) == Cardinality({i \in 1 .. Len(eStream[c]) : eStream[c][i] = p})
Queued(c, p) == Cardinality({i \in 1 .. Len(eQueue[c]) : eQueue[c][i] = p})

\* C9 (as stated): every accepted request gets exactly one message event on
\* its session's stream; so once the session's writer has stopped, after which
\* nothing is written, the event is there.
C9_AsStated ==
    \A p \in Posts :
        Accepted(p) /\ eWriterPc[pConn[p]] = "exited" => Written(pConn[p], p) = 1

\* C9 (amended): for every accepted request the HTTP body is empty, no other
\* session's stream or queue ever holds its response, and its response is
\* queued or written to its session's stream at most once in all; it is lost
\* (neither queued for a running writer nor written) only when the session's
\* Done channel has been closed, by the teardown of the stream or by shutdown.
\* A POST that was not accepted, or has no id, has no event anywhere.
C9_Routed ==
    \A p \in Posts :
        /\ Accepted(p) =>
             /\ pBody[p] = "empty"
             /\ \A d \in Conns \ {pConn[p]} : Written(d, p) = 0 /\ Queued(d, p) = 0
             /\ Written(pConn[p], p) + Queued(pConn[p], p) <= 1
             /\ (Written(pConn[p], p) = 0
                   /\ (Queued(pConn[p], p) = 0 \/ eWriterPc[pConn[p]] = "exited"))
                  => eDone[pConn[p]]
        /\ ~Accepted(p) =>
             \A d \in Conns : Written(d, p) = 0 /\ Queued(d, p) = 0

\* Two sessions are open, an accepted request of one has its message event on
\* that session's stream, and the other stream holds the endpoint event only.
C9_Witness ==
    \E p \in Posts : \E d \in Conns :
        /\ Accepted(p)
        /\ d # pConn[p]
        /\ eStream[pConn[p]] = <<Endpoint, p>>
        /\ eStream[d] = <<Endpoint>>

(* C10 *)

\* The last call named ssh_execute, carried an id, reached Client.Execute on
\* the server that took it, and the remote command completed with an exit code.
Completed ==
    /\ kServer # "none"
    /\ kMsg.tool = "ssh_execute" /\ kMsg.paramsOk /\ kMsg.id # NoId
    /\ kMsg.args # "badtype"
    /\ kServer = "sse" => kMsg.args = "ok"
    /\ kMsg.exec.kind = "exit"

\* C10: when the remote command of an ssh_execute completes with exit code e,
\* the call is answered with a result, not an error, whose isError is true
\* exactly when e is not 0, on the stdio, the HTTP/SSE and the SDK server.
C10_IsErrorIffNonZero ==
    Completed =>
        /\ kAnswer.kind = "frame"
        /\ kAnswer.frame.kind = "result"
        /\ kAnswer.frame.id = kMsg.id
        /\ kAnswer.frame.isError = (kMsg.exec.code # 0)

\* The SDK server has answered a command that exited with the largest code.
C10_Witness ==
    /\ Completed
    /\ kServer = "sdk"
    /\ kMsg.exec.code = MaxExit
    /\ kAnswer.frame.isError


(* C11 *)

\* The last call named ssh_execute, carried an id, reached Client.Execute on
\* the server that took it, and Execute failed: the connection could not be
\* made (authentication, pool limit), or the command timed out or broke.
DomainFailure ==
    /\ kServer \in {"stdio", "sse"}
    /\ kMsg.tool = "ssh_execute" /\ kMsg.paramsOk /\ kMsg.id # NoId
    /\ kMsg.args # "badtype"
    /\ kServer = "sse" => kMsg.args = "ok"
    /\ kMsg.exec.kind # "exit"

\* C11: a domain failure of ssh_execute is answered with a JSON-RPC result
\* whose isError is true, never with a JSON-RPC error.
C11_DomainFailureIsResult ==
    DomainFailure =>
        /\ kAnswer.frame.kind = "result"
        /\ kAnswer.frame.isError

(* C12 *)

\* C12: when the call carries a timeout argument, the deadline enforced on the
\* command is that argument; the configured default is used only without it.
C12_ArgumentIsDeadline ==
    tServer # "none" =>
        tDeadline = (IF tArg # 0 THEN tArg ELSE tConfig)

(* C13 *)

\* Call k was pending in the response table when Close tore the transport
\* down (Close closed its channel), and it has returned to its caller without
\* having a response or a timeout of its own.
TornDown(k) ==
    /\ Returned(k)
    /\ cChanClosed[k]
    /\ cOutcome[k].kind \notin {"response", "timeout"}

\* C13: every request pending at teardown ends, for its caller, in the
\* transport-closed error; none returns as a success.
C13_PendingFailClosed ==
    \A k \in Calls : TornDown(k) => cOutcome[k] = Outcome("closed", NoId)

(* C14 *)

\* The entries of the pending table that hold call k's channel
SlotsOf(k) == {i \in Ids : cResponses[i] = k}

\* C14: once a sendRequest call has returned, the entry it inserted is gone
\* from the pending table.
C14_SlotDeletedOnReturn ==
    \A k \in Calls : cPc[k] = "done" => SlotsOf(k) = {}

(* C15 *)

\* A response with id i arrives while no slot is parked under i (the slot has
\* been reaped).
LateResponse(i) == Deliver(i) /\ cResponses[i] = 0

\* C15: a request whose deadline expired has returned a timeout error and has
\* no slot in the pending table; a response arriving for a reaped slot is
\* discarded: it reaches no channel, completes no caller and leaves the table
\* unchanged.
C15_TimeoutReapsSlot ==
    /\ [](\A k \in Calls :
            cOutcome[k].kind = "timeout" =>
                /\ cPc[k] = "done"
                /\ cOutcome[k] = Outcome("timeout", NoId)
                /\ SlotsOf(k) = {})
    /\ [][\A i \in Ids :
            LateResponse(i) => UNCHANGED <<cResponses, cChanBuf, cPc, cOutcome>>]_vars

\* The only request made has timed out, and a response with its id arrived
\* afterwards (one arriving earlier would still be in its channel's buffer).
C15_Witness ==
    \E k \in Calls :
        /\ cOutcome[k].kind = "timeout"
        /\ cChanBuf[k] = <<>>
        /\ cDelivered > 0
        /\ \A l \in Calls \ {k} : cPc[l] = "idle"

(* C16 *)

\* C16: the request ids assigned by one client are pairwise distinct, so a
\* call that has parked its slot and not returned still holds that slot.
C16_DistinctIds ==
    \A k, l \in Calls :
        /\ (k # l /\ cReqId[k] # NoId /\ cReqId[l] # NoId) => cReqId[k] # cReqId[l]
        /\ (cPc[k] = "waiting" /\ ~cCancelled) => cResponses[cReqId[k]] = k

(* C17 *)

\* Connection c is open: its session is made and handleSSE has not yet removed it.
OpenSession(c) == ePc[c] \in {"registered", "endpoint", "serving"}

\* C17: two connections open at the same time have different session ids, and
\* each is the session registered under its id.
C17_DistinctSessionIds ==
    \A c, d \in Conns :
        (OpenSession(c) /\ OpenSession(d) /\ c # d) =>
            /\ eSid[c] # eSid[d]
            /\ eSessions[eSid[c]] = c

(* C18 *)

\* POST p had a response to enqueue and found its session's queue full.
Overflowed(p) == pPc[p] = "done" /\ pStatus[p] = 408

\* C18: a session's outbound queue never holds more than its capacity, and
\* once a response met a full queue the session is terminated (its Done is
\* closed or its handler has removed it).
C18_OverflowTerminates ==
    /\ \A c \in Conns : Len(eQueue[c]) <= MessagesCap
    /\ \A p \in Posts :
         Overflowed(p) => (eDone[pConn[p]] \/ ~OpenSession(pConn[p]))

(* C19 *)

\* POST p was answered at once with status code, and nothing of its body was
\* handled: no message was decoded or recorded for a handler.
Refused(p, code) ==
    /\ pPc[p] = "done"
    /\ pStatus[p] = code
    /\ pBody[p] = "text"
    /\ pMsg[p] = NoMessage /\ pConn[p] = 0

\* C19 (as stated): a POST whose sessionId is absent or names no registered
\* session is answered with 404 and no handler runs for its body.
C19_AsStated ==
    \A p \in Posts :
        pSession[p] \in {"absent", "unknown"} => Refused(p, 404)

\* C19 (amended): a POST whose sessionId is absent is answered with 400, one
\* whose sessionId names no registered session with 404, and in both cases no
\* handler runs for its body.
C19_MissingOrUnknown ==
    \A p \in Posts :
        /\ pSession[p] = "absent" => Refused(p, 400)
        /\ pSession[p] = "unknown" => Refused(p, 404)

\* One POST without sessionId has been answered 400 and one naming an
\* unregistered session 404, while another session is open.
C19_Witness ==
    /\ \E c \in Conns : OpenSession(c)
    /\ \E p, q \in Posts :
         /\ pSession[p] = "absent" /\ Refused(p, 400)
         /\ pSession[q] = "unknown" /\ Refused(q, 404)

(* C20 *)

\* Connection c has, or had, something of a session: an id, a registration,
\* an event on its stream, a queue, a writer or a closed channel.
HasSession(c) ==
    \/ eSid[c] # NoSid
    \/ \E i \in Sids : eSessions[i] = c
    \/ eStream[c] # <<>> \/ eQueue[c] # <<>>
    \/ eWriterPc[c] # "none" \/ eDone[c] \/ eMsgClosed[c]

\* C20: a POST to /mcp/sse is answered with 405, creates no session and writes
\* no SSE event; only a GET has a session or a stream.
C20_PostNotAllowed ==
    \A c \in Conns :
        /\ eMethod[c] = "POST" => (ePc[c] = "refused" /\ eStatus[c] = 405 /\ ~HasSession(c))
        /\ HasSession(c) => eMethod[c] = "GET"

\* A POST to /mcp/sse has been answered while another connection, opened by
\* GET, is served.
C20_Witness ==
    \E c, d \in Conns :
        /\ eMethod[c] = "POST" /\ eStatus[c] = 405
        /\ eMethod[d] = "GET" /\ ePc[d] = "serving" /\ eStream[d] # <<>>

(* C21 *)

\* The call names one of the two SSH tools and its arguments miss a required
\* field, give a field the wrong type, or give direction a value outside
\* upload / download.
BadArguments ==
    /\ kServer \in {"stdio", "sse"}
    /\ kMsg.paramsOk
    /\ kMsg.tool \in {"ssh_execute", "ssh_file_transfer"}
    /\ kMsg.args # "ok"

\* C21: a tools/call with bad arguments is answered with error -32602; nothing
\* is executed and no transfer is reported as done.
C21_BadArgumentsInvalidParams ==
    BadArguments => kAnswer.frame = ErrorFrame(kMsg.id, InvalidParams)

(* C22 *)

\* The last line was answered with the one error frame of the given code, no
\* method handler ran for it and the initialized flag is as it was.
RejectedWith(code) ==
    /\ Len(sLastFrames) = 1
    /\ sLastFrames[1].kind = "error" /\ sLastFrames[1].code = code
    /\ sLastRan = "none"
    /\ sInitialized = sLastWasInit

\* C22: a line that is not parseable JSON is answered with -32700, and a
\* parseable line whose jsonrpc field is not "2.0" with -32600; no handler
\* runs and the initialized flag is unchanged.
C22_ParseErrorOrInvalidRequest ==
    sLines > 0 =>
        /\ ~sLastMsg.syntax => RejectedWith(ParseError)
        /\ (sLastMsg.syntax /\ ~(sLastMsg.json /\ sLastMsg.v2))
               => RejectedWith(InvalidRequest)

(* C23 *)

\* The last line was an initialize request handled by a server that was
\* already initialized.
InitializeAfterInitialized ==
    /\ sLines > 0
    /\ sLastWasInit
    /\ sLastMsg.json /\ sLastMsg.v2
    /\ sLastMsg.method = "initialize"

\* C23: an initialize request received by an initialized server is not
\* answered with a successful initialize result.
C23_InitializeOnlyAwaitingInit ==
    InitializeAfterInitialized =>
        \A i \in 1 .. Len(sLastFrames) :
            ~(sLastFrames[i].kind = "result" /\ sLastFrames[i].of = "initialize")

(* C24 *)

C25_TeardownOnce ==
    \A c \in Conns :
        /\ ePc[c] # "panicked"
        /\ ePc[c] = "returned" => (eDone[c] /\ eMsgClosed[c])

(* C26 *)

\* The callers about to mutate the pool map, and those about to run the
\* liveness check of a pooled client.
Mutators == {g \in Gos : gPc[g] = "evicting"}
Checkers == {g \in Gos : gPc[g] = "found"}

\* C26: the pool map is mutated under the write lock only (never by a caller
\* that holds the read lock), the liveness check runs with no lock held, and
\* so no two callers are at a mutation at once and no race stops the process.
C26_MapMutatedUnderWriteLock ==
    /\ Mutators \cap Readers = {}
    /\ Checkers \cap Readers = {}
    /\ Cardinality(Mutators) <= 1
    /\ ~crashed

(* C27 *)

\* A key file setting yields a key: a path is set, its "~" can be expanded,
\* and a private key is read from it.
KeyUsable(k, home) ==
    /\ k.path # "none"
    /\ k.path = "tilde" => home
    /\ k.file = "good"

\* The usable methods of a call, in the order password, private key, agent.
UsableMethods(i) ==
    (IF i.password THEN <<"password">> ELSE <<>>)
    \o (IF KeyUsable(i.argKey, i.home) \/ KeyUsable(i.cfgKey, i.home)
          THEN <<"publickey">> ELSE <<>>)
    \o (IF i.agent THEN <<"agent">> ELSE <<>>)

\* C27: getAuthMethods fails only when no method is usable; otherwise it
\* returns the usable methods in the order password, private key, agent.
C27_FailsOnlyWithoutMethod ==
    aResult.kind # "none" =>
        IF UsableMethods(aInfo) = <<>>
          THEN aResult.kind # "ok"
          ELSE aResult = [kind |-> "ok", methods |-> UsableMethods(aInfo)]

(* C28 *)

\* The servers whose connectServer succeeded, and the names in c.servers.
ConnectedServers == {s \in Enabled(oConfig) : oGo[s] = "connected"}
RegisteredNames == {n \in ServerNames : oServers[n] # 0}

\* C28: Start returns an error exactly when no server is enabled or every
\* enabled server failed to connect; when it returns, every enabled server has
\* been tried and exactly the servers that connected are registered.
C28_StartToleratesPartialFailure ==
    oPc = "returned" =>
        /\ oResult = "error" <=> ConnectedServers = {}
        /\ oResult = "ok" <=> ConnectedServers # {}
        /\ \A s \in Enabled(oConfig) : oGo[s] \in {"connected", "failed"}
        /\ RegisteredNames = {oConfig[s].name : s \in ConnectedServers}
        /\ \A n \in RegisteredNames : oServers[n] \in ConnectedServers

\* Start has returned success with one server connected and one failed.
C28_Witness ==
    /\ oPc = "returned" /\ oResult = "ok"
    /\ \E s, r \in Enabled(oConfig) : oGo[s] = "connected" /\ oGo[r] = "failed"

(* C29 *)

\* The tool name is registered and its server has a connection in c.servers.
Callable(name) ==
    /\ oTools[name] # NoTool
    /\ oServers[oTools[name].server] # 0

\* C29: CallTool with a registered qualified name whose server is connected
\* sends exactly one tools/call request, to the connection of the server that
\* registered the name, carrying the bare tool name; with any other name it
\* returns an error and sends nothing.
C29_CallToolRoutes ==
    [][\A name \in CallNames :
         CallTool(name) =>
             IF Callable(name)
               THEN /\ oCall'.result = "sent"
                    /\ Len(oCall'.sent) = 1
                    /\ oCall'.sent[1].tool \in BareNames
                    /\ QualifiedName(oCall'.sent[1].server, oCall'.sent[1].tool) = name
                    /\ oCall'.sent[1].conn = oServers[oCall'.sent[1].server]
                    /\ oGo[oCall'.sent[1].conn] = "connected"
                    /\ oConfig[oCall'.sent[1].conn].name = oCall'.sent[1].server
               ELSE /\ oCall'.result \in {"notool", "notconnected"}
                    /\ oCall'.sent = <<>>]_vars

\* One call has been sent for a qualified name, to the second of two
\* servers that both connected.
C29_Witness ==
    /\ oCall.result = "sent"
    /\ \A s \in OServers : oGo[s] = "connected"
    /\ oCall.sent[1].conn = 2

\* C30: decoding a valid JSON-RPC request, response or notification into
\* MCPRequest/MCPResponse and encoding it again yields the same JSON value:
\* every member of the message that was read is in the message that is
\* written, with the same value, and no other member is.
C30_RoundTrip == jPc = "encoded" => jOut = jIn

\* The members the round trip loses are the null ones.
RoundTripKept ==
    jPc = "encoded" /\ jIn.id # Null /\ jIn.result # Null /\ jIn.data # Null => jOut = jIn

\* C31: a Connect call that returns from its lookup (the pooled client of
\* its key passed the liveness check) returns the client the key maps to,
\* which is open; it makes no new ssh.Client and leaves the pool map as it is.
C31_ReuseLeavesPool ==
    [][\A g \in Gos :
         gPc[g] = "found" /\ gPc'[g] = "idle" =>
            /\ connections[gKey[g]] = gClient[g]
            /\ sshState[gClient[g]] = "open"
            /\ sshReturned'[gClient[g]]
            /\ connections' = connections
            /\ nextSsh' = nextSsh
            /\ sshState' = sshState]_vars

\* A caller is about to pass the liveness check on a client that an earlier
\* call pooled and that has been handed out before.
C31_Witness ==
    \E g \in Gos :
        /\ gPc[g] = "found"
        /\ sshState[gClient[g]] = "open"
        /\ sshReturned[gClient[g]]
        /\ connections[gKey[g]] = gClient[g]

C37_ClosedPoolStaysEmpty ==
    [][\A g \in Gos :
         gLate[g] /\ gPc[g] = "created" /\ gPc'[g] = "idle" =>
            connections' = connections]_vars

\* C33: no POST's handler sends its response on a session's Messages channel
\* after the channel has been closed: no handler with a response to send
\* ends in the panic of a send on a closed channel.
C33_NoSendOnClosed ==
    \A p \in Posts :
        ~(/\ pPc[p] = "done"
          /\ pStatus[p] = -1
          /\ pMsg[p].id # NoId
          /\ ~SSEHandleRequest(pMsg[p]).none
          /\ eMsgClosed[pConn[p]])

\* C34: if the stream reader has handled the endpoint event by the time
\* Connect's wait ends, and the client was not closed, Connect does not
\* return the timeout error: it goes on to return success.
C34_EndpointWakesConnect ==
    [][nPc = "waiting" /\ nSeen /\ ~nCancelled => nPc' # "returned"]_vars

\* What a returned sendRequest call hands to its caller: the response is nil
\* on every error and when the stdio client received from its closed channel
\* (a nil *MCPResponse; the SSE client returns a pointer to an empty
\* MCPResponse); the error is nil when a value was received.
ResponseNil(k) ==
    \/ cOutcome[k].kind \notin {"response", "empty"}
    \/ cOutcome[k].kind = "empty" /\ cTransport = "stdio"
ErrorNil(k) == cOutcome[k].kind \in {"response", "empty"}

\* C35: every return of sendRequest carries exactly one of a non-nil
\* response and a non-nil error.
C35_ResponseOrError ==
    \A k \in Calls : Returned(k) => (ResponseNil(k) # ErrorNil(k))

\* C36: for every input line that decodes and carries an id the stdio
\* server writes exactly one frame, before it reads the next line; the frame
\* has the request's id and is a result or an error.
C36_OneFramePerRequest ==
    (sLines > 0 /\ sLastMsg.json /\ sLastMsg.id # NoId) =>
        /\ Len(sLastFrames) = 1
        /\ sLastFrames[1].id = sLastMsg.id
        /\ sLastFrames[1].kind \in {"result", "error"}

\* C38: the goroutine of an Execute call never finds the done channel full
\* when it comes to send, and it always terminates, whether Execute returned
\* on the command's completion or on the deadline.
C38_DrainerTerminates ==
    /\ [](xGo = "sending" => Len(xDone) < DoneCap)
    /\ (xGo # "none") ~> (xGo = "exited")

\* Execute returned on the deadline, and the goroutine has since sent its
\* result into the buffer nobody reads and ended.
C38_Witness == xOutcome = "timeout" /\ xGo = "exited" /\ xDone # <<>>

\* The list b ends with the list a.
IsSuffix(a, b) == Len(a) <= Len(b) /\ a = LastN(b, Len(a))

\* C39: the message list of Chat's first completion request has at most
\* MaxHistory messages, keeps the system prompt, and holds the user message
\* just submitted after the most recent earlier messages in their order.
C39_TrimmedRequest ==
    hUntrimmed # <<>> =>
        /\ Len(hSent) <= hMax
        /\ SelectRole(hSent, TRUE) = SelectRole(hUntrimmed, TRUE)
        /\ hSent # <<>>
        /\ hSent[Len(hSent)] = hUntrimmed[Len(hUntrimmed)]
        /\ IsSuffix(SelectRole(hSent, FALSE), SelectRole(hUntrimmed, FALSE))
====
